---- MODULE Spec2Model ----
(***************************************************************************)
(* A model of mcp-sap-gui: the Windows controller's window locator        *)
(* (sap_controller.py).  Window titles are sequences of words; substring  *)
(* tests (Python's "marker in title") are contiguous sub-sequence tests.  *)
(* A window handle is a positive integer; 0 stands for Python's None.     *)
(***************************************************************************)
EXTENDS Integers, Sequences, FiniteSets, TLC

VARIABLES
    win,                \* OS: handle -> "closed" | "hidden" | "visible"
    main_window_hwnd,   \* module global _main_window_hwnd (0 = None)
    popup_hwnd,         \* module global _popup_hwnd (0 = None)
    pc,                 \* position of the _find_sap_window_integrated call
    process_pid,        \* its argument
    found_window,       \* its local flag
    passes,             \* enumeration passes made by the running call
    findResult,         \* "none" | "found" | "timeout": what the call returned
    rec,                \* history: the window recorded as main by the last pass
    passSeen,           \* history: handles that passed the filter in the last pass
    passTrace,          \* history: what the callback did in the last pass, in order
    resolverCalls,      \* history: runs of SapController._handle_multiple_logon_popup
    fg,                 \* OS: GetForegroundWindow() (0 = none)
    opName,             \* the controller operation that ran last
    opResult,           \* "none" | "ok" | "error": how it ended
    opHwnd,             \* the window _ensure_sap_window_active worked on
    opUsed,             \* history: handles the operation passed to OS calls
    opValidated,        \* history: handles it found to be live windows
    opTrace,            \* history: what the operation did, in order
    dpi_scale,          \* SapController._dpi_scale, in 1/96 (a DPI of 144 is 1.5)
    pointer,            \* history: where the operation's pyautogui.moveTo put the
                        \* pointer, in 1/96 pixel (<<>> if it did not move it)
    wheel,              \* history: the deltas the operation gave pyautogui.scroll
    opArgs,             \* history: the arguments the operation was called with
    opEnum,             \* history: what _find_any_sap_window worked on, if it ran
    procUp,             \* OS: a saplogon.exe process exists
    lpc,                \* position of the launch_transaction call
    launchEnv,          \* what the running (or last) launch found: the launcher
                        \* binary and the four SAP_* environment variables
    current_process,    \* SapController._current_process (its pid, 0 = None)
    procPolls,          \* turns of the process-start poll loop
    launchResult,       \* "none" | "image" | "error"
    launchTrace,        \* history: the side effects of the launch, in order
    launchFailures,     \* history: why launches of this session failed so far
    mapIn,              \* the arguments of a coordinate-mapper call
    mapOut,             \* what the call did
    typeIn,             \* the text given to type_text (a sequence of characters)
    typeOut,            \* the pyautogui calls type_text made, in order
    typeAt,             \* the while loop of type_text: whether it runs, i and buffer
    window_text,        \* the dictionary _get_window_text is filling
    childText,          \* the text of the child window last enumerated
    prevResult,         \* the dictionary before that child was enumerated
    childCount,         \* how many child windows have been enumerated
    sap,                \* SapGuiServer.sap: the controller, created lazily
    last_screenshot,    \* SapGuiServer.last_screenshot
    captured,           \* the newest image a controller method returned to the handler
    call,               \* the tool call being handled: name and arguments
    reply,              \* what handle_call_tool gave its caller
    coreFailed,         \* whether the core raised during the call
    tasks,              \* invocation -> its handler coroutine: position, tool, value seen
    platform,           \* "windows" | "macos": which controller the session uses
    procs,              \* OS: process -> whether it is running
    endResult,          \* "none" | "ok" | "raised": how the last end_session ended
    endKilled,          \* history: the processes that call terminated
    endCalls,           \* end_session calls made so far
    actIn,              \* the window, its placement and what each tier's wait will see
    actOut,             \* what _ensure_sap_window_active did with them
    waitPc,             \* the activation wait loop a call is in
    waitTurns,          \* turns of that loop so far
    waitOut,            \* "none" | "active" | "warning": how the last call's waits ended
    disk,               \* integrate.py: the settings file, its backup and the temporary file
    upc,                \* position of the update_settings call
    uLog,               \* history: the steps the call has completed, in order
    uOrig               \* history: the settings file when the call began

osVars   == <<win, fg>>
globVars == <<main_window_hwnd, popup_hwnd>>
locVars  == <<pc, process_pid, found_window, passes, findResult, rec, passSeen, passTrace>>
opVars   == <<opName, opResult, opHwnd, opUsed, opValidated, opTrace, resolverCalls,
              dpi_scale, pointer, wheel, opArgs, opEnum>>
launchVars == <<procUp, lpc, launchEnv, current_process, procPolls, launchResult,
                launchTrace, launchFailures>>
mapVars  == <<mapIn, mapOut>>
typeVars == <<typeIn, typeOut, typeAt>>
textVars == <<window_text, childText, prevResult, childCount>>
toolVars == <<sap, last_screenshot, captured, call, reply, coreFailed, tasks>>
endVars  == <<platform, procs, endResult, endKilled, endCalls>>
actVars  == <<actIn, actOut, waitPc, waitTurns, waitOut>>
integVars == <<disk, upc, uLog, uOrig>>
pureVars == <<mapVars, typeVars, textVars, toolVars, endVars, actVars, integVars>>
vars     == <<osVars, globVars, locVars, opVars, launchVars, pureVars>>

\* What each part of the program leaves alone
locFrame == <<opVars, launchVars, pureVars>>
opFrame  == <<locVars, launchVars, pureVars>>

----------------------------------------------------------------------------
(* Strings *)

\* the letters and digits of str.upper(), str.lower() and str.isdigit()
LowerLetters == <<"a", "b", "c", "d", "e", "f", "g", "h", "i", "j", "k", "l", "m",
                  "n", "o", "p", "q", "r", "s", "t", "u", "v", "w", "x", "y", "z">>
UpperLetters == <<"A", "B", "C", "D", "E", "F", "G", "H", "I", "J", "K", "L", "M",
                  "N", "O", "P", "Q", "R", "S", "T", "U", "V", "W", "X", "Y", "Z">>
Digits == {"0", "1", "2", "3", "4", "5", "6", "7", "8", "9"}

\* str.upper()
UpperChar(c) ==
    IF \E i \in 1..Len(LowerLetters) : LowerLetters[i] = c
    THEN UpperLetters[CHOOSE i \in 1..Len(LowerLetters) : LowerLetters[i] = c]
    ELSE c
Upper(str) == [i \in 1..Len(str) |-> UpperChar(str[i])]

\* str.lower() on a sequence of characters
LowerChar(c) ==
    IF \E i \in 1..Len(UpperLetters) : UpperLetters[i] = c
    THEN LowerLetters[CHOOSE i \in 1..Len(UpperLetters) : UpperLetters[i] = c]
    ELSE c
LowerStr(str) == [i \in 1..Len(str) |-> LowerChar(str[i])]

\* Python's `sub in s` on strings
Contains(sub, s) ==
    \E i \in 0..(Len(s) - Len(sub)) : SubSeq(s, i + 1, i + Len(sub)) = sub

PopupMarker == <<"License", "Information", "for", "Multiple", "Logons">>
LogonMarker == <<"SAP", "Logon">>

----------------------------------------------------------------------------
(* The desktop: a fixed population of top-level windows, each open or not *)

NumWindows == 5
Handles == 1..NumWindows
None == 0

SapPid == 1
OtherPid == 2
Pids == {SapPid, OtherPid}

\* GetWindowText(hwnd)
Title(h) ==
    CASE h = 1 -> PopupMarker
      [] h = 2 -> <<"SAP", "Easy", "Access", "-", "MM03">>
      [] h = 3 -> <<"SAP", "Logon", "770">>
      [] h = 4 -> <<"SAP", "Easy", "Access">>
      [] h = 5 -> <<"Display", "Material">>
      [] OTHER -> <<>>

\* GetWindowThreadProcessId(hwnd)[1]
WindowPid(h) == IF h = 4 THEN OtherPid ELSE SapPid

\* win32gui.IsWindow(hwnd)
IsWindow(h) == h \in Handles /\ win[h] # "closed"

\* win32gui.IsWindowVisible(hwnd)
IsWindowVisible(h) == h \in Handles /\ win[h] = "visible"

WinStates == {"closed", "hidden", "visible"}

\* The states the desktop model lets window h take: only the main window is
\* ever open and hidden
WinStatesOf(h) == IF h = 2 THEN WinStates ELSE {"closed", "visible"}

RECURSIVE Ascending(_, _)
Ascending(S, from) ==
    IF from > NumWindows THEN <<>>
    ELSE IF from \in S THEN <<from>> \o Ascending(S, from + 1)
    ELSE Ascending(S, from + 1)

Reverse(s) == [i \in 1..Len(s) |-> s[Len(s) + 1 - i]]

\* win32gui.EnumWindows: the open top-level windows in Z-order, which the
\* desktop decides; the model takes the handles in rising or in falling order
EnumOrders ==
    LET open == Ascending({h \in Handles : win[h] # "closed"}, 1)
    IN {open, Reverse(open)}

\* win32gui.GetWindowRect(hwnd): <<left, top, right, bottom>>
GetWindowRect(h) == <<10 * h, 0, 10 * h + 2, 2>>

----------------------------------------------------------------------------
(* Coordinate mapping: _get_dpi_scale, _click_with_dpi_scaling and           *)
(* _move_with_dpi_scaling.  A scale is kept as its numerator over 96 and a   *)
(* screen coordinate in 1/96 pixel, so that dpi / 96.0 and x * scale are     *)
(* exact.                                                                    *)

DpiBase == 96

\* _get_dpi_scale with the except clause of lines 34-36 left out
get_dpi_scale_no_default(dpi) == dpi

\* _get_dpi_scale, lines 25-36: dpi is GetDpiForSystem(), 0 when the query fails
get_dpi_scale(dpi) == IF dpi = 0 THEN DpiBase ELSE dpi

\* _click_with_dpi_scaling with the far edges excluded from the window
click_with_dpi_scaling_strict(rect, x, y, check_bounds, scale) ==
    LET width  == rect[3] - rect[1]
        height == rect[4] - rect[2]
    IN IF check_bounds /\ ~(0 <= x /\ x < width /\ 0 <= y /\ y < height)
       THEN [raised |-> TRUE, screen |-> <<>>, events |-> <<>>]
       ELSE [raised |-> FALSE,
             screen |-> <<rect[1] * DpiBase + x * scale, rect[2] * DpiBase + y * scale>>,
             events |-> <<"moveTo", "click">>]

\* _click_with_dpi_scaling(window_handle, x, y, check_bounds), lines 548-574,
\* on the rectangle GetWindowRect returned
click_with_dpi_scaling(rect, x, y, check_bounds, scale) ==
    LET width  == rect[3] - rect[1]
        height == rect[4] - rect[2]
    IN IF check_bounds /\ ~(0 <= x /\ x <= width /\ 0 <= y /\ y <= height)
       THEN [raised |-> TRUE, screen |-> <<>>, events |-> <<>>]
       ELSE [raised |-> FALSE,
             screen |-> <<rect[1] * DpiBase + x * scale, rect[2] * DpiBase + y * scale>>,
             events |-> <<"moveTo", "click">>]

\* _move_with_dpi_scaling with the point left unscaled
move_with_dpi_scaling_unscaled(rect, x, y, check_bounds, scale) ==
    LET width  == rect[3] - rect[1]
        height == rect[4] - rect[2]
    IN IF check_bounds /\ ~(0 <= x /\ x <= width /\ 0 <= y /\ y <= height)
       THEN [raised |-> TRUE, screen |-> <<>>, events |-> <<>>]
       ELSE [raised |-> FALSE,
             screen |-> <<rect[1] * DpiBase + x * DpiBase, rect[2] * DpiBase + y * DpiBase>>,
             events |-> <<"moveTo">>]

\* _move_with_dpi_scaling(window_handle, x, y, check_bounds), lines 603-627
move_with_dpi_scaling(rect, x, y, check_bounds, scale) ==
    LET width  == rect[3] - rect[1]
        height == rect[4] - rect[2]
    IN IF check_bounds /\ ~(0 <= x /\ x <= width /\ 0 <= y /\ y <= height)
       THEN [raised |-> TRUE, screen |-> <<>>, events |-> <<>>]
       ELSE [raised |-> FALSE,
             screen |-> <<rect[1] * DpiBase + x * scale, rect[2] * DpiBase + y * scale>>,
             events |-> <<"moveTo">>]

----------------------------------------------------------------------------
(* _find_sap_window_integrated *)

\* line 191 calls the bare name _handle_multiple_logon_popup with no argument.
\* At module level that name is the function of line 38, which requires
\* process_pid; the SapController method of line 383 is not in scope.
HandlePopupParams == 1
HandlePopupArgs == 0
PopupCallRaises == HandlePopupArgs # HandlePopupParams

\* The locals and globals one enumeration pass works on
NoRec == [hwnd |-> None, visible |-> FALSE, pid |-> None, want |-> None]

PassState(popup, main, found) ==
    [popup |-> popup, main |-> main, found |-> found, rec |-> NoRec, seen |-> {},
     trace |-> <<>>]

\* enum_windows_callback(hwnd, _), lines 166-209
PopupBranch(h, st) ==
    \* lines 189-192: _popup_hwnd is set, then the call raises TypeError, which
    \* line 207 catches; the callback returns True either way.  The function of
    \* line 38, were it callable, only searches for the popup: on neither path
    \* does SapController._handle_multiple_logon_popup (line 383) run
    IF PopupCallRaises
    THEN [st EXCEPT !.popup = h, !.seen = @ \cup {h},
                    !.trace = @ \o <<(<<"popup", h>>), (<<"raised", h>>)>>]
    ELSE [st EXCEPT !.popup = h, !.seen = @ \cup {h}, !.trace = Append(@, <<"popup", h>>)]

\* MainBranch without the launcher-window test of line 196
MainBranchNoLogonSkip(h, st) ==
    [st EXCEPT !.main = h, !.found = TRUE, !.seen = @ \cup {h},
               !.trace = Append(@, <<"main", h>>),
               !.rec = [hwnd |-> h, visible |-> IsWindowVisible(h),
                        pid |-> WindowPid(h), want |-> process_pid]]

MainBranch(h, st) ==
    \* lines 195-203
    IF Contains(LogonMarker, Title(h))
    THEN [st EXCEPT !.seen = @ \cup {h}]
    ELSE [st EXCEPT !.main = h, !.found = TRUE, !.seen = @ \cup {h},
                    !.trace = Append(@, <<"main", h>>),
                    !.rec = [hwnd |-> h, visible |-> IsWindowVisible(h),
                             pid |-> WindowPid(h), want |-> process_pid]]

\* PassesFilter without the visibility test
PassesFilterNoVisible(h) ==
    WindowPid(h) = process_pid /\ Title(h) # <<>>

PassesFilter(h) ==
    \* line 181
    IsWindowVisible(h) /\ WindowPid(h) = process_pid /\ Title(h) # <<>>

enum_windows_callback(h, st) ==
    IF ~IsWindow(h) THEN st
    ELSE IF ~PassesFilter(h) THEN st
    ELSE IF Contains(PopupMarker, Title(h)) THEN PopupBranch(h, st)
    ELSE MainBranch(h, st)

RECURSIVE EnumWindows(_, _)
EnumWindows(order, st) ==
    IF order = <<>> THEN st
    ELSE EnumWindows(Tail(order), enum_windows_callback(Head(order), st))

\* How many passes the model lets one call make before the 5 s are over
MaxPasses == 3

\* _find_sap_window_integrated(process_pid) is entered
EnterFind(pid) ==
    /\ pc = "idle"
    /\ pc' = "loop"
    /\ process_pid' = pid
    /\ found_window' = FALSE
    /\ passes' = 0
    /\ findResult' = "none"
    /\ rec' = NoRec
    /\ passSeen' = {}
    /\ passTrace' = <<>>
    /\ resolverCalls' = 0
    /\ UNCHANGED <<osVars, globVars, opName, opResult, opHwnd, opUsed, opValidated,
                   opTrace, dpi_scale, pointer, wheel, opArgs, opEnum, pureVars>>

\* a caller other than launch_transaction enters it
StartFind(pid) ==
    /\ lpc = "idle"
    /\ EnterFind(pid)
    /\ UNCHANGED <<launchVars, pureVars>>

\* lines 212-220: one turn of the while loop whose time test passed
EnumPass(order) ==
    /\ pc = "loop"
    /\ passes < MaxPasses
    /\ LET st == EnumWindows(order, PassState(popup_hwnd, main_window_hwnd, FALSE))
       IN /\ popup_hwnd' = st.popup
          /\ main_window_hwnd' = st.main
          /\ found_window' = st.found
          /\ rec' = st.rec
          /\ passSeen' = st.seen
          /\ passTrace' = st.trace
          /\ pc' = IF st.found THEN "settle" ELSE "loop"
    /\ passes' = passes + 1
    /\ UNCHANGED <<osVars, process_pid, findResult, locFrame>>

\* lines 216-219: sleep(1.0); return True
ReturnFound ==
    /\ pc = "settle"
    /\ pc' = "idle"
    /\ findResult' = "found"
    /\ found_window' = FALSE
    /\ passes' = 0
    /\ rec' = NoRec
    /\ passSeen' = {}
    /\ passTrace' = <<>>
    /\ UNCHANGED <<osVars, globVars, process_pid, locFrame>>

\* the search gives up whether or not the last pass found the window
ReturnTimeoutAnyway ==
    /\ pc \in {"loop", "settle"}
    /\ passes >= 1
    /\ pc' = "idle"
    /\ findResult' = "timeout"
    /\ found_window' = FALSE
    /\ passes' = 0
    /\ rec' = NoRec
    /\ passSeen' = {}
    /\ passTrace' = <<>>
    /\ UNCHANGED <<osVars, globVars, process_pid, locFrame>>

\* lines 212, 221-222: the time test fails after at least one pass
ReturnTimeout ==
    /\ pc = "loop"
    /\ passes >= 1
    /\ pc' = "idle"
    /\ findResult' = "timeout"
    /\ found_window' = FALSE
    /\ passes' = 0
    /\ rec' = NoRec
    /\ passSeen' = {}
    /\ passTrace' = <<>>
    /\ UNCHANGED <<osVars, globVars, process_pid, locFrame>>

\* The desktop changes while the caller is idle or the loop sleeps
WindowChanges(h, s) ==
    /\ pc \in {"idle", "loop", "settle"}
    /\ s \in WinStatesOf(h)
    /\ win[h] # s
    /\ win' = [win EXCEPT ![h] = s]
    /\ fg' = IF fg = h /\ s # "visible" THEN None ELSE fg
    /\ UNCHANGED <<globVars, locVars, opVars, launchVars, pureVars>>

----------------------------------------------------------------------------
(* The controller's interactive operations (class SapController) *)

\* psutil.Process(pid).name().lower() == 'saplogon.exe'
IsSapLogonProcess(pid) == pid = SapPid

RECURSIVE SelectSeq2(_, _)
\* the elements of order that are in S, in order
SelectSeq2(order, S) ==
    IF order = <<>> THEN <<>>
    ELSE IF Head(order) \in S THEN <<Head(order)>> \o SelectSeq2(Tail(order), S)
    ELSE SelectSeq2(Tail(order), S)

\* _find_any_sap_window without the preference of lines 152-156
find_any_sap_window_first(order) ==
    LET result == SelectSeq2(order,
                     {h \in Handles : /\ IsWindowVisible(h)
                                      /\ IsSapLogonProcess(WindowPid(h))
                                      /\ ~Contains(LogonMarker, Title(h))})
    IN IF result = <<>> THEN None ELSE result[1]

\* _find_any_sap_window(), lines 103-160
find_any_sap_window(order) ==
    LET result == SelectSeq2(order,
                     {h \in Handles : /\ IsWindowVisible(h)
                                      /\ IsSapLogonProcess(WindowPid(h))
                                      /\ ~Contains(LogonMarker, Title(h))})
    IN IF result = <<>> THEN None
       ELSE IF \E i \in 1..Len(result) : result[i] = fg THEN fg
       ELSE result[1]

\* the cached handle taken without asking whether it is still a window
EnsureTargetCachedOnly(order) ==
    IF main_window_hwnd # None
    THEN main_window_hwnd
    ELSE find_any_sap_window(order)

\* _ensure_sap_window_active, lines 324-335: the window to work on.  The
\* cached handle counts only while it is a window; the fallback's result is
\* local to the call: _main_window_hwnd is not assigned
EnsureTarget(order) ==
    IF main_window_hwnd # None /\ IsWindow(main_window_hwnd)
    THEN main_window_hwnd
    ELSE find_any_sap_window(order)

\* the activation with every tier tried, whatever the waits see
activation_all_tiers(hwnd, minimized, waits, fg0) ==
    [trace |-> (IF minimized THEN <<"restore">> ELSE <<>>)
               \o <<"maximize", "tier1", "tier2", "tier3">>
               \o (IF waits[3] THEN <<>> ELSE <<"warning">>),
     fg |-> IF waits[1] \/ waits[2] \/ waits[3] THEN hwnd ELSE fg0]

\* _ensure_sap_window_active, lines 341-377, on the window hwnd: minimized is
\* what GetWindowPlacement answers, waits[k] what the wait of tier k returns
\* (_wait_for_window_activation, lines 311-318), fg0 the foreground window
\* before
activation(hwnd, minimized, waits, fg0) ==
    LET restored == IF minimized THEN <<"restore">> ELSE <<>>       \* lines 343-347
        tier1    == restored \o <<"maximize", "tier1">>             \* lines 350, 355
        tier2    == tier1 \o <<"tier2">>                            \* lines 362-363
        tier3    == tier2 \o <<"tier3">>                            \* lines 370-372
    IN IF waits[1] THEN [trace |-> tier1, fg |-> hwnd]              \* lines 356-358
       ELSE IF waits[2] THEN [trace |-> tier2, fg |-> hwnd]         \* lines 364-366
       ELSE IF waits[3] THEN [trace |-> tier3, fg |-> hwnd]         \* lines 374-377
       ELSE [trace |-> tier3 \o <<"warning">>, fg |-> fg0]

\* lines 353-377: tier is the first tier after which the window is in the
\* foreground (0: none, which only logs a warning); the windows of the
\* desktop model are never minimized
Tiers == 0..3
TierTrace(tier) ==
    activation(None, FALSE, [k \in 1..3 |-> k = tier], None).trace

\* lines 324-335: whether the call goes to _find_any_sap_window
Searches == ~(main_window_hwnd # None /\ IsWindow(main_window_hwnd))

\* nothing enumerated
NoEnum == [ran |-> FALSE, order |-> <<>>, fg |-> None]

\* the call fails when no tier brought the window to the foreground
ensure_sap_window_active_strict(order, tier) ==
    LET hwnd == EnsureTarget(order)
    IN IF hwnd = None
       THEN [raised |-> TRUE, hwnd |-> None, fg |-> fg, trace |-> <<>>,
             searched |-> Searches, order |-> order]
       ELSE [raised |-> tier = 0, hwnd |-> hwnd,
             fg |-> IF tier > 0 THEN hwnd ELSE fg,
             trace |-> TierTrace(tier), searched |-> Searches, order |-> order]

\* _ensure_sap_window_active as a whole: the window chosen, whether it raised,
\* the foreground window afterwards
ensure_sap_window_active(order, tier) ==
    LET hwnd == EnsureTarget(order)
    IN IF hwnd = None
       THEN [raised |-> TRUE, hwnd |-> None, fg |-> fg, trace |-> <<>>,
             searched |-> Searches, order |-> order]
       ELSE [raised |-> FALSE, hwnd |-> hwnd,
             fg |-> IF tier > 0 THEN hwnd ELSE fg,
             trace |-> TierTrace(tier), searched |-> Searches, order |-> order]

\* a tier outcome the desktop can produce: a window already in the foreground
\* is found active by the first check
TierPossible(order, tier) == EnsureTarget(order) = fg => tier = 1

\* an operation whose input goes out before the activation
OpDoneInputFirst(name, result, act, used, trace) ==
    /\ opName' = name
    /\ opResult' = result
    /\ opHwnd' = act.hwnd
    /\ opUsed' = (IF act.hwnd = None THEN {} ELSE {act.hwnd}) \cup used
    /\ opValidated' = IF act.hwnd = None THEN {} ELSE {act.hwnd}
    /\ opTrace' = trace \o act.trace
    /\ opEnum' = IF act.searched THEN [ran |-> TRUE, order |-> act.order, fg |-> fg]
                  ELSE NoEnum
    /\ fg' = act.fg

\* What an operation leaves behind
OpDone(name, result, act, used, trace) ==
    /\ opName' = name
    /\ opResult' = result
    /\ opHwnd' = act.hwnd
    /\ opUsed' = (IF act.hwnd = None THEN {} ELSE {act.hwnd}) \cup used
    /\ opValidated' = IF act.hwnd = None THEN {} ELSE {act.hwnd}
    /\ opTrace' = act.trace \o trace
    /\ opEnum' = IF act.searched THEN [ran |-> TRUE, order |-> act.order, fg |-> fg]
                  ELSE NoEnum
    /\ fg' = act.fg

OpCoords == {-1, 1}

\* A coordinate as a caller passes it: an integer, or a value int() rejects
Coord(c) == [int |-> TRUE, val |-> c]
NotInteger == [int |-> FALSE, val |-> 0]
ArgCoords == {Coord(c) : c \in OpCoords} \cup {NotInteger}

\* click_position(x, y), lines 576-601
click_position(x, y, order, tier) ==
    /\ opName = "none"
    /\ TierPossible(order, tier)
    /\ LET act == ensure_sap_window_active(order, tier)
           m   == click_with_dpi_scaling(GetWindowRect(main_window_hwnd), x.val, y.val,
                                         TRUE, dpi_scale)
       IN CASE act.raised \/ act.fg = None ->
                 \* lines 582-587
                 OpDone("click", "error", act, {}, <<>>) /\ UNCHANGED pointer
            [] ~(act.raised \/ act.fg = None) /\ ~(x.int /\ y.int) ->
                 \* line 591: int(x), int(y) raise
                 OpDone("click", "error", act, {}, <<>>) /\ UNCHANGED pointer
            [] ~(act.raised \/ act.fg = None) /\ x.int /\ y.int
                   /\ ~IsWindow(main_window_hwnd) ->
                 \* line 552: GetWindowRect(_main_window_hwnd) raises
                 OpDone("click", "error", act, {main_window_hwnd}, <<>>)
                 /\ UNCHANGED pointer
            [] ~(act.raised \/ act.fg = None) /\ x.int /\ y.int
                   /\ IsWindow(main_window_hwnd) /\ m.raised ->
                 OpDone("click", "error", act, {main_window_hwnd}, <<>>)
                 /\ UNCHANGED pointer
            [] OTHER ->
                 OpDone("click", "ok", act, {main_window_hwnd},
                        m.events \o <<"settle", "screenshot">>)
                 /\ pointer' = m.screen
    /\ opArgs' = <<x, y>>
    /\ UNCHANGED <<win, globVars, resolverCalls, dpi_scale, wheel, opFrame>>

\* move_mouse(x, y), lines 629-649
move_mouse(x, y, order, tier) ==
    /\ opName = "none"
    /\ TierPossible(order, tier)
    /\ LET act == ensure_sap_window_active(order, tier)
           m   == move_with_dpi_scaling(GetWindowRect(main_window_hwnd), x.val, y.val,
                                        TRUE, dpi_scale)
           int == x.int /\ y.int
       IN CASE act.raised ->
                 OpDone("move", "error", act, {}, <<>>) /\ UNCHANGED pointer
            [] ~act.raised /\ ~int ->
                 \* line 639: int(x), int(y) raise
                 OpDone("move", "error", act, {}, <<>>) /\ UNCHANGED pointer
            [] ~act.raised /\ int /\ ~IsWindow(main_window_hwnd) ->
                 \* line 607: GetWindowRect(_main_window_hwnd) raises
                 OpDone("move", "error", act, {main_window_hwnd}, <<>>)
                 /\ UNCHANGED pointer
            [] ~act.raised /\ int /\ IsWindow(main_window_hwnd) /\ m.raised ->
                 OpDone("move", "error", act, {main_window_hwnd}, <<>>)
                 /\ UNCHANGED pointer
            [] ~act.raised /\ int /\ IsWindow(main_window_hwnd) /\ ~m.raised
                   /\ act.fg = None ->
                 \* _take_screenshot, lines 723-725: no active window
                 OpDone("move", "error", act, {main_window_hwnd}, m.events \o <<"settle">>)
                 /\ pointer' = m.screen
            [] OTHER ->
                 OpDone("move", "ok", act, {main_window_hwnd},
                        m.events \o <<"settle", "screenshot">>)
                 /\ pointer' = m.screen
    /\ opArgs' = <<x, y>>
    /\ UNCHANGED <<win, globVars, resolverCalls, dpi_scale, wheel, opFrame>>

\* the comparison with the direction as it was given
scroll_delta_exact(direction) ==
    IF direction = <<"d", "o", "w", "n">> THEN -5 ELSE 5

\* lines 690-693: direction.lower() == "down" chooses the delta
scroll_delta(direction) ==
    IF LowerStr(direction) = <<"d", "o", "w", "n">> THEN -5 ELSE 5

\* scroll_screen of the macOS controller, sap_controller_macos.py lines
\* 107-111: the wheel events it dispatches
scroll_screen_macos(direction) ==
    LET amount == IF LowerStr(direction) = <<"d", "o", "w", "n">> THEN -5 ELSE 5
    IN <<amount>>

\* scroll_screen(direction), lines 682-706
scroll_screen(direction, order, tier) ==
    /\ opName = "none"
    /\ TierPossible(order, tier)
    /\ LET act    == ensure_sap_window_active(order, tier)
           amount == scroll_delta(direction)
       IN CASE act.raised ->
                 OpDone("scroll", "error", act, {}, <<>>) /\ wheel' = <<>>
            [] ~act.raised /\ act.fg = None ->
                 \* _take_screenshot, lines 723-725: no active window
                 OpDone("scroll", "error", act, {}, <<"scroll", "settle">>)
                 /\ wheel' = <<amount>>
            [] OTHER ->
                 OpDone("scroll", "ok", act, {}, <<"scroll", "settle", "screenshot">>)
                 /\ wheel' = <<amount>>
    /\ opArgs' = <<direction>>
    /\ UNCHANGED <<win, pointer, globVars, resolverCalls, dpi_scale, opFrame>>

\* type_text(text) of the Windows controller, lines 651-680: the text goes to
\* WScript.Shell's SendKeys as it is
type_text_windows(text, order, tier) ==
    /\ opName = "none"
    /\ TierPossible(order, tier)
    /\ LET act == ensure_sap_window_active(order, tier)
       IN CASE act.raised ->
                 OpDone("type", "error", act, {}, <<>>)
            [] ~act.raised /\ act.fg = None ->
                 OpDone("type", "error", act, {}, <<"sendkeys", "settle">>)
            [] OTHER ->
                 OpDone("type", "ok", act, {}, <<"sendkeys", "settle", "screenshot">>)
    /\ opArgs' = <<text>>
    /\ UNCHANGED <<win, pointer, wheel, globVars, resolverCalls, dpi_scale, opFrame>>

\* handle_call_tool, name == "sap_click", server.py lines 250-258: int() on
\* both coordinates before the controller is called
sap_click(x, y, order, tier) ==
    IF x.int /\ y.int
    THEN click_position(x, y, order, tier)
    ELSE /\ opName = "none"
         /\ OpDone("click", "error",
                   [raised |-> FALSE, hwnd |-> None, fg |-> fg, trace |-> <<>>,
                    searched |-> FALSE, order |-> <<>>], {}, <<>>)
         /\ opArgs' = <<x, y>>
         /\ UNCHANGED <<win, pointer, wheel, globVars, resolverCalls, dpi_scale, opFrame>>

\* handle_call_tool, name == "sap_move_mouse", server.py lines 272-274: the
\* arguments go to the controller as they are
sap_move_mouse(x, y, order, tier) == move_mouse(x, y, order, tier)

\* _get_window_text(), lines 243-305.  GetWindowText and EnumChildWindows on
\* a handle that is no window either fail or read nothing, as the OS decides
get_window_text(order, tier, staleFails) ==
    /\ opName = "none"
    /\ TierPossible(order, tier)
    /\ IsWindow(main_window_hwnd) => ~staleFails
    /\ LET act == ensure_sap_window_active(order, tier)
       IN CASE act.raised ->
                 OpDone("text", "error", act, {}, <<>>)
            [] ~act.raised /\ staleFails ->
                 OpDone("text", "error", act, {main_window_hwnd}, <<>>)
            [] OTHER ->
                 OpDone("text", "ok", act, {main_window_hwnd}, <<"read">>)
    /\ UNCHANGED <<win, pointer, wheel, opArgs, globVars, resolverCalls, dpi_scale, opFrame>>

\* SapController._handle_multiple_logon_popup(), lines 383-445; activated
\* tells whether the 2 s retry loop brought the popup to the foreground
MaxResolves == 1

\* the click made twice
popup_click_twice(rect, scale) ==
    LET m == click_with_dpi_scaling(rect, (rect[3] - rect[1]) \div 2,
                                    (38 * (rect[4] - rect[2])) \div 100, FALSE, scale)
    IN [m EXCEPT !.events = @ \o <<"click">>]

\* lines 426-434: the click at half the width and 38 % of the height of the
\* popup's rectangle, with the bounds check off
popup_click(rect, scale) ==
    LET width   == rect[3] - rect[1]
        height  == rect[4] - rect[2]
        click_x == width \div 2
        click_y == (38 * height) \div 100
    IN click_with_dpi_scaling(rect, click_x, click_y, FALSE, scale)

handle_multiple_logon_popup(activated) ==
    LET rect    == GetWindowRect(popup_hwnd)
        m       == popup_click(rect, dpi_scale)
        noAct   == [raised |-> FALSE, hwnd |-> None, fg |-> fg, trace |-> <<>>,
                    searched |-> FALSE, order |-> <<>>]
    IN
    /\ opName = "none"
    /\ resolverCalls < MaxResolves
    /\ CASE popup_hwnd = None ->
              \* lines 389-391
              OpDone("popup", "ok", noAct, {}, <<>>)
              /\ UNCHANGED <<pointer, resolverCalls>>
         [] popup_hwnd # None /\ ~IsWindow(popup_hwnd) ->
              \* line 397: GetWindowPlacement(hwnd) raises
              OpDone("popup", "error", noAct, {popup_hwnd}, <<>>)
              /\ UNCHANGED pointer
              /\ resolverCalls' = resolverCalls + 1
         [] OTHER ->
              /\ OpDone("popup", "ok",
                        [noAct EXCEPT !.fg = IF activated THEN popup_hwnd ELSE fg],
                        {popup_hwnd},
                        <<"activate">> \o m.events \o <<"enter", "wait">>)
              /\ pointer' = m.screen
              /\ resolverCalls' = resolverCalls + 1
    /\ UNCHANGED <<win, wheel, opArgs, globVars, dpi_scale, opFrame>>

\* The operation returns to its caller (or raises): what it did is forgotten
OpReturns ==
    /\ opName # "none"
    /\ opName' = "none"
    /\ opResult' = "none"
    /\ opHwnd' = None
    /\ opUsed' = {}
    /\ opValidated' = {}
    /\ opTrace' = <<>>
    /\ pointer' = <<>>
    /\ wheel' = <<>>
    /\ opArgs' = <<>>
    /\ opEnum' = NoEnum
    /\ UNCHANGED <<osVars, globVars, resolverCalls, dpi_scale, opFrame>>

\* No operation is running
OpsIdle ==
    /\ opName = "none"
    /\ opResult = "none"
    /\ opHwnd = None
    /\ opUsed = {}
    /\ opValidated = {}
    /\ opTrace = <<>>
    /\ pointer = <<>>
    /\ wheel = <<>>
    /\ opArgs = <<>>
    /\ opEnum = NoEnum
    /\ resolverCalls = 0

----------------------------------------------------------------------------
(* launch_transaction, lines 460-546 *)

CredFields == {"SAP_SYSTEM", "SAP_CLIENT", "SAP_USER", "SAP_PASSWORD"}
\* os.getenv: None, the empty string, or a value
CredValues == {"absent", "empty", "set"}
\* Python truthiness of what os.getenv returned
Truthy(v) == v = "set"

\* line 481: all([system, client, user, password])
AllCreds(env) == \A f \in CredFields : Truthy(env.creds[f])

\* The environments the model starts a launch in: the binary there or not, and
\* at most one credential not set
LaunchEnvs ==
    {[exe |-> e, creds |-> c] :
        e \in BOOLEAN,
        c \in {c \in [CredFields -> CredValues] :
                  Cardinality({f \in CredFields : c[f] # "set"}) <= 1}}

NoLaunchEnv == [exe |-> TRUE, creds |-> [f \in CredFields |-> "set"]]

\* taskkill /F /IM saplogon.exe, lines 500-502: the process and its windows go
Killed(w) == [h \in Handles |-> IF IsSapLogonProcess(WindowPid(h)) THEN "closed" ELSE w[h]]

\* LaunchStart with the credentials tested only after the spawn
LaunchStartSpawnFirst(env) ==
    /\ lpc = "idle"
    /\ pc = "idle"
    /\ opName = "none"
    /\ launchEnv' = env
    /\ procPolls' = 0
    /\ launchFailures' = launchFailures \cup (IF ~env.exe THEN {"executable"}
                                              ELSE IF ~AllCreds(env) THEN {"credentials"}
                                              ELSE {})
    /\ IF ~env.exe
       THEN /\ launchResult' = "error"
            /\ launchTrace' = <<>>
            /\ lpc' = "idle"
            /\ UNCHANGED <<win, fg, procUp>>
       ELSE /\ launchResult' = IF AllCreds(env) THEN "none" ELSE "error"
            /\ launchTrace' = <<"taskkill", "spawn">>
            /\ lpc' = IF AllCreds(env) THEN "procPoll" ELSE "idle"
            /\ procUp' = FALSE
            /\ win' = Killed(win)
            /\ fg' = IF fg # None /\ Killed(win)[fg] = "closed" THEN None ELSE fg
    /\ UNCHANGED <<globVars, locVars, opVars, current_process, pureVars>>

\* lines 464-506: up to subprocess.Popen(cmd)
LaunchStart(env) ==
    /\ lpc = "idle"
    /\ pc = "idle"
    /\ opName = "none"
    /\ launchEnv' = env
    /\ procPolls' = 0
    /\ IF ~env.exe
       THEN \* lines 469-472
            /\ launchResult' = "error"
            /\ launchFailures' = launchFailures \cup {"executable"}
            /\ launchTrace' = <<>>
            /\ lpc' = "idle"
            /\ UNCHANGED <<win, fg, procUp>>
       ELSE IF ~AllCreds(env)
       THEN \* lines 481-482
            /\ launchResult' = "error"
            /\ launchFailures' = launchFailures \cup {"credentials"}
            /\ launchTrace' = <<>>
            /\ lpc' = "idle"
            /\ UNCHANGED <<win, fg, procUp>>
       ELSE \* lines 498-506
            /\ launchResult' = "none"
            /\ UNCHANGED launchFailures
            /\ launchTrace' = <<"taskkill", "spawn">>
            /\ lpc' = "procPoll"
            /\ procUp' = FALSE
            /\ win' = Killed(win)
            /\ fg' = IF fg # None /\ Killed(win)[fg] = "closed" THEN None ELSE fg
    /\ UNCHANGED <<globVars, locVars, opVars, current_process, pureVars>>

MaxProcPolls == 2

\* lines 513-520: one turn of the process poll loop
ProcPoll ==
    /\ lpc = "procPoll"
    /\ procPolls < MaxProcPolls
    /\ procPolls' = procPolls + 1
    /\ launchTrace' = IF procPolls = 0 THEN Append(launchTrace, "poll") ELSE launchTrace
    /\ IF procUp
       THEN \* lines 516-519, 525
            /\ current_process' = SapPid
            /\ lpc' = "procFound"
       ELSE UNCHANGED <<current_process, lpc>>
    /\ UNCHANGED <<osVars, globVars, locVars, opVars, procUp, launchEnv, launchResult,
                   launchFailures, pureVars>>

\* the failure leaves the session marked busy
ProcPollTimeoutStuck ==
    /\ lpc = "procPoll"
    /\ procPolls >= 1
    /\ lpc' = "failed"
    /\ launchResult' = "error"
    /\ launchFailures' = launchFailures \cup {"process"}
    /\ UNCHANGED <<osVars, globVars, locVars, opVars, procUp, launchEnv, current_process,
                   procPolls, launchTrace, pureVars>>

\* lines 513, 522-523: the 5 s are over and no process was seen
ProcPollTimeout ==
    /\ lpc = "procPoll"
    /\ procPolls >= 1
    /\ lpc' = "idle"
    /\ launchResult' = "error"
    /\ launchFailures' = launchFailures \cup {"process"}
    /\ UNCHANGED <<osVars, globVars, locVars, opVars, procUp, launchEnv, current_process,
                   procPolls, launchTrace, pureVars>>

\* lines 529-532: sleep(2), then _find_sap_window_integrated(pid)
LaunchFind ==
    /\ lpc = "procFound"
    /\ lpc' = "find"
    /\ launchTrace' = Append(launchTrace, "find")
    /\ EnterFind(current_process)
    /\ UNCHANGED <<procUp, launchEnv, current_process, procPolls, launchResult,
                   launchFailures>>

\* an image is returned whatever the search reported
LaunchFinishIgnoresSearch ==
    /\ lpc = "find"
    /\ pc = "idle"
    /\ lpc' = "idle"
    /\ launchTrace' = Append(launchTrace, "screenshot")
    /\ launchResult' = IF fg = None THEN "error" ELSE "image"
    /\ UNCHANGED <<osVars, globVars, locVars, opVars, procUp, launchEnv, current_process,
                   procPolls, launchFailures, pureVars>>

\* lines 532-542: the search returned
LaunchFinish ==
    /\ lpc = "find"
    /\ pc = "idle"
    /\ lpc' = "idle"
    /\ IF findResult = "found"
       THEN \* _take_screenshot, lines 719-748: needs an active window
            /\ launchTrace' = Append(launchTrace, "screenshot")
            /\ launchResult' = IF fg = None THEN "error" ELSE "image"
            /\ UNCHANGED launchFailures
       ELSE \* line 542
            /\ launchResult' = "error"
            /\ launchFailures' = launchFailures \cup {"window"}
            /\ UNCHANGED launchTrace
    /\ UNCHANGED <<osVars, globVars, locVars, opVars, procUp, launchEnv, current_process,
                   procPolls, pureVars>>

\* The launched sapshcut.exe brings up saplogon.exe
ProcessStarts ==
    /\ lpc = "procPoll"
    /\ ~procUp
    /\ procUp' = TRUE
    /\ UNCHANGED <<osVars, globVars, locVars, opVars, lpc, launchEnv, current_process,
                   procPolls, launchResult, launchTrace, launchFailures, pureVars>>

\* end_session of the Windows controller, lines 708-717, in a session that
\* may have launched: the two taskkill commands and nothing else
end_session ==
    /\ lpc = "idle"
    /\ pc = "idle"
    /\ opName = "none"
    /\ win' = Killed(win)
    /\ fg' = IF fg # None /\ Killed(win)[fg] = "closed" THEN None ELSE fg
    /\ procUp' = FALSE
    /\ UNCHANGED <<globVars, locVars, opVars, lpc, launchEnv, current_process, procPolls,
                   launchResult, launchTrace, launchFailures, pureVars>>

\* A visible window comes to the foreground
ForegroundChanges(h) ==
    /\ lpc \in {"idle", "find"}
    /\ win[h] = "visible"
    /\ fg # h
    /\ fg' = h
    /\ UNCHANGED <<win, globVars, locVars, opVars, launchVars, pureVars>>

----------------------------------------------------------------------------
(* type_text of the macOS controller (sap_controller_macos.py, lines 65-105). *)
(* A text is a sequence of one-character strings.  The Windows controller    *)
(* hands the text to WScript.Shell's SendKeys, which is not code of this     *)
(* repository.                                                              *)

\* the keys of `mapping`, lines 66-76
MappingKeys ==
    {<<"E", "N", "T", "E", "R">>, <<"T", "A", "B">>, <<"E", "S", "C">>,
     <<"B", "A", "C", "K", "S", "P", "A", "C", "E">>, <<"D", "E", "L", "E", "T", "E">>,
     <<"U", "P">>, <<"D", "O", "W", "N">>, <<"L", "E", "F", "T">>,
     <<"R", "I", "G", "H", "T">>}

\* line 89: key.startswith("F") and key[1:].isdigit()
IsFunctionKey(key) ==
    /\ Len(key) >= 2
    /\ key[1] = "F"
    /\ \A i \in 2..Len(key) : key[i] \in Digits

\* text.find(c, i): the first position >= i holding c, 0 when there is none
\* (positions count from 1)
Find(text, c, i) ==
    IF \E j \in i..Len(text) : text[j] = c
    THEN CHOOSE j \in i..Len(text) : text[j] = c /\ \A k \in i..(j - 1) : text[k] # c
    ELSE 0

\* pyautogui.write(buffer) and pyautogui.press(key); a key is named by the
\* upper-case token that stands for it
Write(buffer) == [kind |-> "write", text |-> buffer]
Press(key) == [kind |-> "press", text |-> key]

\* lines 83-85, 94-96, 102-103
Flush(buffer, events) == IF buffer # <<>> THEN Append(events, Write(buffer)) ELSE events

RECURSIVE type_text(_, _, _, _)
\* the while loop of lines 79-103, at position i with the pending buffer
type_text(text, i, buffer, events) ==
    IF i > Len(text) THEN Flush(buffer, events)
    ELSE IF text[i] = "{" /\ Find(text, "}", i) # 0
    THEN \* lines 80-92
         LET end == Find(text, "}", i)
             key == Upper(SubSeq(text, i + 1, end - 1))
             flushed == Flush(buffer, events)
         IN type_text(text, end + 1, <<>>,
                      IF key \in MappingKeys \/ IsFunctionKey(key)
                      THEN Append(flushed, Press(key))
                      ELSE flushed)
    ELSE IF text[i] = "~"
    THEN \* lines 93-99
         type_text(text, i + 1, <<>>,
                   Append(Flush(buffer, events), Press(<<"E", "N", "T", "E", "R">>)))
    ELSE \* lines 100-101
         type_text(text, i + 1, Append(buffer, text[i]), events)

\* the loop not between calls
NoParse == [run |-> FALSE, i |-> 1, buffer |-> <<>>]

\* a turn that moves past a bracketed group only when it pressed a key
type_text_turn_stuck(text, i, buffer, events) ==
    IF text[i] = "{" /\ Find(text, "}", i) # 0
    THEN LET end == Find(text, "}", i)
             key == Upper(SubSeq(text, i + 1, end - 1))
             flushed == Flush(buffer, events)
         IN IF key \in MappingKeys \/ IsFunctionKey(key)
            THEN [i |-> end + 1, buffer |-> <<>>, events |-> Append(flushed, Press(key))]
            ELSE [i |-> i, buffer |-> <<>>, events |-> flushed]
    ELSE IF text[i] = "~"
    THEN [i |-> i + 1, buffer |-> <<>>,
          events |-> Append(Flush(buffer, events), Press(<<"E", "N", "T", "E", "R">>))]
    ELSE [i |-> i + 1, buffer |-> Append(buffer, text[i]), events |-> events]

\* one turn of the while loop, lines 79-101, at position i <= len(text)
type_text_turn(text, i, buffer, events) ==
    IF text[i] = "{" /\ Find(text, "}", i) # 0
    THEN \* lines 80-92
         LET end == Find(text, "}", i)
             key == Upper(SubSeq(text, i + 1, end - 1))
             flushed == Flush(buffer, events)
         IN [i |-> end + 1, buffer |-> <<>>,
             events |-> IF key \in MappingKeys \/ IsFunctionKey(key)
                        THEN Append(flushed, Press(key))
                        ELSE flushed]
    ELSE IF text[i] = "~"
    THEN \* lines 93-99
         [i |-> i + 1, buffer |-> <<>>,
          events |-> Append(Flush(buffer, events), Press(<<"E", "N", "T", "E", "R">>))]
    ELSE \* lines 100-101
         [i |-> i + 1, buffer |-> Append(buffer, text[i]), events |-> events]

----------------------------------------------------------------------------
(* The classification of child-window texts in _get_window_text            *)
(* (sap_controller.py, lines 272-295).  A text is a sequence of atoms: a    *)
(* word, a colon or a blank; a keyword is found in a text when its atoms    *)
(* occur there one after the other.                                         *)

\* _UI_ELEMENTS, lines 230-235
UI_ELEMENTS ==
    {<<"AppToolbar">>, <<"Custom", " ", "Container">>, <<"Control", " ", "Container">>,
     <<"SAP's", " ", "Advanced", " ", "Treelist">>}

\* str.lower() on the atoms that have upper-case letters
MixedCase == <<"Error", "Material", "Processing", "AppToolbar", "Custom", "Container",
               "Control", "SAP's", "Advanced", "Treelist">>
LowerCase == <<"error", "material", "processing", "apptoolbar", "custom", "container",
               "control", "sap's", "advanced", "treelist">>
LowerAtom(a) ==
    IF \E i \in 1..Len(MixedCase) : MixedCase[i] = a
    THEN LowerCase[CHOOSE i \in 1..Len(MixedCase) : MixedCase[i] = a]
    ELSE a
Lower(text) == [i \in 1..Len(text) |-> LowerAtom(text[i])]

\* the keyword lists of lines 283 and 286
ErrorKeywords ==
    {<<"error">>, <<"does", " ", "not", " ", "exist">>, <<"invalid">>, <<"failed">>}
StatusKeywords == {<<"success">>, <<"completed">>, <<"processed">>}

\* any(k in text.lower() for k in keywords)
AnyIn(keywords, text) == \E k \in keywords : Contains(k, Lower(text))

RECURSIVE LStrip(_)
LStrip(text) ==
    IF text # <<>> /\ Head(text) = " " THEN LStrip(Tail(text)) ELSE text
RECURSIVE RStrip(_)
RStrip(text) ==
    IF text # <<>> /\ text[Len(text)] = " "
    THEN RStrip(SubSeq(text, 1, Len(text) - 1))
    ELSE text
\* str.strip()
Strip(text) == RStrip(LStrip(text))

\* the text cut at its last colon
SplitLastColon(text) ==
    LET p == CHOOSE j \in 1..Len(text) :
                 text[j] = ":" /\ \A k \in (j + 1)..Len(text) : text[k] # ":"
    IN <<SubSeq(text, 1, p - 1), SubSeq(text, p + 1, Len(text))>>

\* text.split(":", 1)
SplitColon(text) ==
    LET p == Find(text, ":", 1)
    IN <<SubSeq(text, 1, p - 1), SubSeq(text, p + 1, Len(text))>>

\* the dictionary of lines 256-261
EmptyResult ==
    [main_text |-> <<>>, error_messages |-> <<>>, status_messages |-> <<>>,
     field_values |-> [l \in {} |-> <<>>]]

\* result["field_values"][label] = value
SetItem(dict, label, value) ==
    [l \in DOMAIN dict \cup {label} |-> IF l = label THEN value ELSE dict[l]]

\* the status keywords tested before the error keywords
enum_child_callback_status_first(text, res) ==
    IF text = <<>> \/ text \in UI_ELEMENTS THEN res
    ELSE IF AnyIn(StatusKeywords, text)
    THEN [res EXCEPT !.status_messages = Append(@, text)]
    ELSE IF AnyIn(ErrorKeywords, text)
    THEN [res EXCEPT !.error_messages = Append(@, text)]
    ELSE IF Find(text, ":", 1) # 0
    THEN [res EXCEPT !.field_values =
              SetItem(@, Strip(SplitColon(text)[1]), Strip(SplitColon(text)[2]))]
    ELSE res

\* enum_child_callback, lines 273-295: the dictionary after one child window
enum_child_callback(text, res) ==
    IF text = <<>> \/ text \in UI_ELEMENTS THEN res
    ELSE IF AnyIn(ErrorKeywords, text)
    THEN [res EXCEPT !.error_messages = Append(@, text)]
    ELSE IF AnyIn(StatusKeywords, text)
    THEN [res EXCEPT !.status_messages = Append(@, text)]
    ELSE IF Find(text, ":", 1) # 0
    THEN [res EXCEPT !.field_values =
              SetItem(@, Strip(SplitColon(text)[1]), Strip(SplitColon(text)[2]))]
    ELSE res

----------------------------------------------------------------------------
(* The tool adapter: handle_call_tool (server.py, lines 208-355).  The core  *)
(* is the controller; what its methods do is given by `core`: whether the   *)
(* constructor raises, whether the method raises or what image it returns,  *)
(* what _get_window_text finds, and whether saving the image works.         *)

ToolNames ==
    {"launch_transaction", "sap_click", "sap_move_mouse", "sap_type", "sap_scroll",
     "end_transaction", "save_last_screenshot"}

ArgKeys == {"transaction", "x", "y", "text", "direction", "filename", "experimental"}
\* an argument is absent, an integer, a string that is no number, or ""
ArgValues == {"int", "word", "empty"}
Absent == "absent"

\* int(v), lines 253-254: whether it raises ValueError or TypeError
IntRaises(v) == v \in {"word", "empty"}
\* bool(v)
Truthy2(v) == v \in {"int", "word"}
\* arguments.get(key, default)
Get(arguments, key, default) ==
    IF arguments[key] = Absent THEN default ELSE arguments[key]

TextContent(text) == [type |-> "text", text |-> text]

\* handle_image_response, lines 42-61
handle_image_response(image, experimental) ==
    IF experimental
    THEN <<[type |-> "image", data |-> image], TextContent(<<"data:image/png;base64,", image>>)>>
    ELSE <<[type |-> "resource", text |-> <<"data:image/png;base64,", image>>]>>

\* get_sap_controller, lines 361-373
get_sap_controller(sap0, core) ==
    IF sap0 = None
    THEN IF core.ctor = "raise"
         THEN [exc |-> TRUE, sap |-> None]
         ELSE [exc |-> FALSE, sap |-> 1]
    ELSE [exc |-> FALSE, sap |-> sap0]

\* the file a call wrote: its name argument and the image in it
NoFile == [name |-> Absent, image |-> ""]

Raise(msg, ls, failed) ==
    [exc |-> TRUE, msg |-> msg, content |-> <<>>, last_screenshot |-> ls, core |-> failed,
     file |-> NoFile, captured |-> ""]
Return(content, ls) ==
    [exc |-> FALSE, msg |-> "", content |-> content, last_screenshot |-> ls, core |-> FALSE,
     file |-> NoFile, captured |-> ""]

\* the image of a core result sent to the caller and not kept
ResultContentNotKept(resultKeys, image, arguments, ls) ==
    LET status == IF "status" \in resultKeys
                  THEN <<TextContent(<<"Status: ">>)>> ELSE <<>>
    IN IF "image" \in resultKeys /\ image # ""
       THEN [Return(status \o handle_image_response(image,
                        Truthy2(Get(arguments, "experimental", "empty"))), ls)
                EXCEPT !.captured = image]
       ELSE Return(status, ls)

\* lines 220-221, 264-265 and their copies: the status text and the image of
\* a core result {"image": ...}, which has no "status" key
ResultContent(resultKeys, image, arguments, ls) ==
    LET status == IF "status" \in resultKeys
                  THEN <<TextContent(<<"Status: ">>)>> ELSE <<>>
    IN IF "image" \in resultKeys /\ image # ""
       THEN [Return(status \o handle_image_response(image,
                        Truthy2(Get(arguments, "experimental", "empty"))), image)
                EXCEPT !.captured = image]
       ELSE Return(status, ls)

\* what a controller method returned
CoreImage(core) ==
    CASE core.op = "image" -> "png"
      [] core.op = "image2" -> "png2"
      [] OTHER -> ""

\* the save with the image decoded from the controller's newest result
\* rather than from self.last_screenshot
SaveBranchNewest(arguments, core, ls) ==
    LET filename == arguments["filename"]
    IN IF core.save = "raise" \/ filename = "int"
       THEN Return(<<TextContent(<<"Error saving screenshot: ">>)>>, ls)
       ELSE [Return(<<TextContent(<<"Screenshot saved to ", filename>>)>>, ls)
                EXCEPT !.file = [name |-> filename, image |-> CoreImage(core)]]

\* lines 329-342: Image.open(...).save(filename); a filename that is not a
\* string has no extension to infer the format from, so save raises
SaveBranch(arguments, core, ls) ==
    LET filename == arguments["filename"]
    IN IF core.save = "raise" \/ filename = "int"
       THEN Return(<<TextContent(<<"Error saving screenshot: ">>)>>, ls)
       ELSE [Return(<<TextContent(<<"Screenshot saved to ", filename>>)>>, ls)
                EXCEPT !.file = [name |-> filename, image |-> ls]]

\* lines 218-343: the branch for the tool name
ToolBranch(name, arguments, core, ls) ==
    CASE name = "launch_transaction" ->
           IF arguments["transaction"] = Absent THEN Raise("KeyError", ls, FALSE)
           ELSE IF core.op = "raise" THEN Raise("core", ls, TRUE)
           ELSE IF core.text.raise
           THEN \* line 224 raises after line 221 returned the image
                [Raise("core", ls, TRUE) EXCEPT !.captured = CoreImage(core)]
           ELSE LET texts ==
                        (IF core.text.errors THEN <<TextContent(<<"Errors: ">>)>> ELSE <<>>)
                     \o (IF core.text.status THEN <<TextContent(<<"Status: ">>)>> ELSE <<>>)
                     \o (IF core.text.fields THEN <<TextContent(<<"Fields:">>)>> ELSE <<>>)
                    rc == ResultContent({"image"}, CoreImage(core), arguments, ls)
                IN [Return(texts \o rc.content, rc.last_screenshot)
                       EXCEPT !.captured = rc.captured]
      [] name = "sap_click" ->
           IF IntRaises(Get(arguments, "x", "int")) \/ IntRaises(Get(arguments, "y", "int"))
           THEN Raise("Coordinates must be valid integers", ls, FALSE)
           ELSE IF core.op = "raise" THEN Raise("core", ls, TRUE)
           ELSE ResultContent({"image"}, CoreImage(core), arguments, ls)
      [] name = "sap_move_mouse" ->
           IF arguments["x"] = Absent \/ arguments["y"] = Absent
           THEN Raise("KeyError", ls, FALSE)
           ELSE IF core.op = "raise" THEN Raise("core", ls, TRUE)
           ELSE ResultContent({"image"}, CoreImage(core), arguments, ls)
      [] name = "sap_type" ->
           IF arguments["text"] = Absent THEN Raise("KeyError", ls, FALSE)
           ELSE IF core.op = "raise" THEN Raise("core", ls, TRUE)
           ELSE ResultContent({"image"}, CoreImage(core), arguments, ls)
      [] name = "sap_scroll" ->
           IF arguments["direction"] = Absent THEN Raise("KeyError", ls, FALSE)
           ELSE IF core.op = "raise" THEN Raise("core", ls, TRUE)
           ELSE ResultContent({"image"}, CoreImage(core), arguments, ls)
      [] name = "end_transaction" ->
           IF core.op = "raise" THEN Raise("core", ls, TRUE)
           ELSE Return(<<TextContent(<<"Status: success">>)>>, ls)
      [] name = "save_last_screenshot" ->
           IF ls = "" THEN Return(<<TextContent(<<"Error: No screenshot available">>)>>, ls)
           ELSE IF ~Truthy2(Get(arguments, "filename", "empty"))
           THEN Return(<<TextContent(<<"Error: Filename is required">>)>>, ls)
           ELSE SaveBranch(arguments, core, ls)
      [] OTHER ->
           Return(<<TextContent(<<"Unknown tool: ", name>>)>>, ls)

\* lines 352-355
ErrorReply(name, msg) ==
    <<TextContent(<<"Error: ", "Error executing ", name, ": ", msg>>)>>

\* the controller obtained before the try statement is entered
handle_call_tool_unguarded(name, arguments, core, sap0, ls) ==
    LET ctl == get_sap_controller(sap0, core)
        br  == ToolBranch(name, arguments, core, ls)
    IN IF ctl.exc
       THEN [propagated |-> TRUE, content |-> <<>>, sap |-> ctl.sap,
             last_screenshot |-> ls, core |-> TRUE, file |-> NoFile, captured |-> ""]
       ELSE [propagated |-> FALSE,
             content |-> IF br.exc THEN ErrorReply(name, br.msg) ELSE br.content,
             sap |-> ctl.sap, last_screenshot |-> br.last_screenshot,
             core |-> br.core, file |-> br.file, captured |-> br.captured]

\* handle_call_tool, lines 208-355: the try statement around the whole body
handle_call_tool(name, arguments, core, sap0, ls) ==
    LET ctl == get_sap_controller(sap0, core)
        br  == ToolBranch(name, arguments, core, ls)
    IN IF ctl.exc
       THEN [propagated |-> FALSE, content |-> ErrorReply(name, "ctor"), sap |-> ctl.sap,
             last_screenshot |-> ls, core |-> TRUE, file |-> NoFile, captured |-> ""]
       ELSE [propagated |-> FALSE,
             content |-> IF br.exc THEN ErrorReply(name, br.msg) ELSE br.content,
             sap |-> ctl.sap, last_screenshot |-> br.last_screenshot,
             core |-> br.core, file |-> br.file, captured |-> br.captured]

----------------------------------------------------------------------------
(* end_session: sap_controller.py, lines 708-717, and                     *)
(* sap_controller_macos.py, lines 113-119.  Process names are sequences   *)
(* of atoms.                                                              *)

\* The processes of the desktop: the launched SAP process, the launcher
\* helper, a program that is not SAP, and an SAP process of another user
NumProcs == 4
ProcIds == 1..NumProcs
LaunchedProc == 1

ProcName(p, os) ==
    IF os = "windows"
    THEN CASE p = 1 -> <<"saplogon", ".exe">>
           [] p = 2 -> <<"sapshcut", ".exe">>
           [] p = 4 -> <<"saplogon", ".exe">>
           [] OTHER -> <<"notepad", ".exe">>
    ELSE CASE p = 1 -> <<"SAP", "GUI">>
           [] p = 2 -> <<"SAP", "GUI", " ", "Helper">>
           [] p = 4 -> <<"SAP", "GUI">>
           [] OTHER -> <<"Finder">>

\* whether the caller may terminate the process: not one of another user
MayTerminate(p) == p # 4

\* taskkill /F /IM name: ends the running processes of that name the caller
\* may terminate; its exit status is not looked at
Taskkill(running, name) ==
    {p \in running : ProcName(p, "windows") = name /\ MayTerminate(p)}

\* lines 712-713
KnownProcessNames == {<<"saplogon", ".exe">>, <<"sapshcut", ".exe">>}

\* end_session of the Windows controller: what it terminated, whether it raised
end_session_windows(running) ==
    [killed |-> UNION {Taskkill(running, name) : name \in KnownProcessNames},
     raised |-> FALSE]

RECURSIVE KillLoop(_, _, _)
\* lines 116-119 of the macOS controller, from process p on: proc.kill() on
\* each running process with "SAP" in its name; psutil raises AccessDenied
\* for a process of another user, which ends the loop
KillLoop(p, running, killed) ==
    IF p > NumProcs THEN [killed |-> killed, raised |-> FALSE]
    ELSE IF p \in running /\ Contains(<<"SAP">>, ProcName(p, "macos"))
    THEN IF MayTerminate(p)
         THEN KillLoop(p + 1, running, killed \cup {p})
         ELSE [killed |-> killed, raised |-> TRUE]
    ELSE KillLoop(p + 1, running, killed)

\* end_session of the macOS controller; quit is the set of processes that
\* left on the osascript quit request within the 2 s of line 115
end_session_macos(running, quit) == KillLoop(1, running \ quit, quit)

----------------------------------------------------------------------------
(* The coordinate mapper on its own: every rectangle, point and scale *)

MaxDim == 2
MapInputs ==
    [rect  : {<<l, t, l + w, t + h>> : l \in {-8, 0, 5}, t \in {0, 5},
                                       w \in 0..MaxDim, h \in 0..MaxDim},
     x     : -1..(MaxDim + 1),
     y     : -1..(MaxDim + 1),
     check : BOOLEAN,
     scale : {get_dpi_scale(d) : d \in {0, 72, 120, 144, 240}}]

NoMapOut == [op |-> "none", raised |-> FALSE, screen |-> <<>>, events |-> <<>>]

MapResult(op, r) ==
    [op |-> op, raised |-> r.raised, screen |-> r.screen, events |-> r.events]

MapClick ==
    /\ mapOut.op = "none"
    /\ mapOut' = MapResult("click", click_with_dpi_scaling(mapIn.rect, mapIn.x, mapIn.y,
                                                           mapIn.check, mapIn.scale))
    /\ UNCHANGED <<mapIn, typeVars, integVars, textVars, toolVars, endVars, actVars, osVars, globVars, locVars, opVars, launchVars>>

MapMove ==
    /\ mapOut.op = "none"
    /\ mapOut' = MapResult("move", move_with_dpi_scaling(mapIn.rect, mapIn.x, mapIn.y,
                                                         mapIn.check, mapIn.scale))
    /\ UNCHANGED <<mapIn, typeVars, integVars, textVars, toolVars, endVars, actVars, osVars, globVars, locVars, opVars, launchVars>>

\* click_position(x, y) of the macOS controller, sap_controller_macos.py lines
\* 55-58: pyautogui.click(x, y) takes x and y as a point of the screen
click_position_macos(x, y) ==
    [raised |-> FALSE, screen |-> <<x * DpiBase, y * DpiBase>>, events |-> <<"click">>]

\* move_mouse(x, y) of the macOS controller, lines 60-63
move_mouse_macos(x, y) ==
    [raised |-> FALSE, screen |-> <<x * DpiBase, y * DpiBase>>, events |-> <<"moveTo">>]

\* the macOS controller gets the same x and y; it asks for no window and no scale
MapClickMacos ==
    /\ mapOut.op = "none"
    /\ mapOut' = MapResult("click_macos", click_position_macos(mapIn.x, mapIn.y))
    /\ UNCHANGED <<mapIn, typeVars, integVars, textVars, toolVars, endVars, actVars, osVars, globVars, locVars, opVars, launchVars>>

MapMoveMacos ==
    /\ mapOut.op = "none"
    /\ mapOut' = MapResult("move_macos", move_mouse_macos(mapIn.x, mapIn.y))
    /\ UNCHANGED <<mapIn, typeVars, integVars, textVars, toolVars, endVars, actVars, osVars, globVars, locVars, opVars, launchVars>>

\* the resolver's click on the rectangle, whatever x, y and check are
MapPopup ==
    /\ mapOut.op = "none"
    /\ mapOut' = MapResult("popup", popup_click(mapIn.rect, mapIn.scale))
    /\ UNCHANGED <<mapIn, typeVars, integVars, textVars, toolVars, endVars, actVars, osVars, globVars, locVars, opVars, launchVars>>

\* No mapper call under study
MapIdle ==
    /\ mapIn = [rect |-> <<0, 0, 0, 0>>, x |-> 0, y |-> 0, check |-> TRUE,
                scale |-> DpiBase]
    /\ mapOut = NoMapOut

\* type_text on every short text over the characters that make up tokens,
\* and on the docstring's example
MaxTypeLen == 4
TypeChars == {"{", "}", "~", "U", "P", "u", "F", "1"}

RECURSIVE Strings(_, _)
\* the sequences over S of length at most n
Strings(S, n) ==
    IF n = 0 THEN {<<>>}
    ELSE LET shorter == Strings(S, n - 1)
         IN shorter \cup {Append(t, c) : t \in shorter, c \in S}

HelloTabWorld ==
    <<"H", "e", "l", "l", "o", "{", "T", "A", "B", "}", "W", "o", "r", "l", "d", "~">>

TypeInputs == Strings(TypeChars, MaxTypeLen) \cup {HelloTabWorld}

NoTypeOut == [done |-> FALSE, events |-> <<>>]

TypeText ==
    /\ ~typeOut.done
    /\ typeOut' = [done |-> TRUE, events |-> type_text(typeIn, 1, <<>>, <<>>)]
    /\ UNCHANGED <<typeIn, typeAt, mapVars, integVars, textVars, toolVars, endVars, actVars, osVars, globVars, locVars, opVars, launchVars>>

TypeIdle ==
    /\ typeIn = <<>>
    /\ typeOut = NoTypeOut
    /\ typeAt = NoParse

\* EnumChildWindows, line 298, over the child windows of one SAP window:
\* every text of up to MaxTextLen atoms, and the texts of SAP screens
MaxChildren == 2
MaxTextLen == 2
TextAtoms == {"Error", "completed", ":", "x"}
ChildTexts ==
    Strings(TextAtoms, MaxTextLen)
        \cup {<<"Material", " ", "does", " ", "not", " ", "exist">>,
              <<"Processing", " ", "completed">>,
              <<"Material", ":", " ", "100-100">>,
              <<" ", "Material", " ", ":", " ", "200", ":", "x", " ">>,
              <<"AppToolbar">>,
              <<"Custom", " ", "Container">>}

EnumChild(text) ==
    /\ childCount < MaxChildren
    /\ childCount' = childCount + 1
    /\ childText' = text
    /\ prevResult' = window_text
    /\ window_text' = enum_child_callback(text, window_text)
    /\ UNCHANGED <<mapVars, typeVars, integVars, toolVars, endVars, actVars, osVars, globVars, locVars, opVars, launchVars>>

TextIdle ==
    /\ window_text = EmptyResult
    /\ prevResult = EmptyResult
    /\ childText = <<>>
    /\ childCount = 0

\* The tool calls a client makes: every tool name and one that is none, and
\* every argument mapping with at most MaxArgs arguments present
MaxArgs == 2
CallNames == ToolNames \cup {"no_such_tool"}
ArgMaps ==
    UNION {{[k \in ArgKeys |-> IF k \in K THEN f[k] ELSE Absent] : f \in [K -> ArgValues]} :
              K \in {K \in SUBSET ArgKeys : Cardinality(K) <= MaxArgs}}
NoArgs == [k \in ArgKeys |-> Absent]
NoCall == [name |-> "", arguments |-> NoArgs]
NoReply == [done |-> FALSE, propagated |-> FALSE, content |-> <<>>, file |-> NoFile]

\* what the core can do during one call to the tool
TextOutcomes ==
    {t \in [raise : BOOLEAN, errors : BOOLEAN, status : BOOLEAN, fields : BOOLEAN] :
        t.raise => ~t.errors /\ ~t.status /\ ~t.fields}
NoTexts == [raise |-> FALSE, errors |-> FALSE, status |-> FALSE, fields |-> FALSE]
CoreOutcomes(name) ==
    {c \in [ctor : {"ok", "raise"}, op : {"raise", "image", "image2", "noimage"},
            text : TextOutcomes, save : {"ok", "raise"}] :
        /\ name # "launch_transaction" => c.text = NoTexts
        /\ name \in {"save_last_screenshot", "no_such_tool"} => c.op = "image"
        /\ name # "save_last_screenshot" => c.save = "ok"}

\* a client calls a tool
CallTool ==
    /\ call = NoCall
    /\ \E name \in CallNames, arguments \in ArgMaps :
          call' = [name |-> name, arguments |-> arguments]
    /\ UNCHANGED <<sap, last_screenshot, captured, reply, coreFailed, tasks>>
    /\ UNCHANGED <<mapVars, typeVars, integVars, textVars, endVars, actVars, osVars, globVars, locVars, opVars, launchVars>>

\* the handler runs
HandleCallTool ==
    /\ call # NoCall
    /\ ~reply.done
    /\ \E core \in CoreOutcomes(call.name) :
          /\ core.ctor = "raise" => sap = None
          /\ LET r == handle_call_tool(call.name, call.arguments, core, sap,
                                       last_screenshot)
             IN /\ reply' = [done |-> TRUE, propagated |-> r.propagated,
                             content |-> r.content, file |-> r.file]
                /\ sap' = r.sap
                /\ last_screenshot' = r.last_screenshot
                /\ captured' = IF r.captured # "" THEN r.captured ELSE captured
                /\ coreFailed' = r.core
    /\ UNCHANGED <<call, tasks>>
    /\ UNCHANGED <<mapVars, typeVars, integVars, textVars, endVars, actVars, osVars, globVars, locVars, opVars, launchVars>>

\* the caller has the reply; the server waits for the next call
CallReturns ==
    /\ reply.done
    /\ call' = NoCall
    /\ reply' = NoReply
    /\ coreFailed' = FALSE
    /\ UNCHANGED <<sap, last_screenshot, captured, tasks>>
    /\ UNCHANGED <<mapVars, typeVars, integVars, textVars, endVars, actVars, osVars, globVars, locVars, opVars, launchVars>>

----------------------------------------------------------------------------
(* Several invocations on the event loop that runs handle_call_tool.  A   *)
(* coroutine gives the loop to another task only at an await.             *)

MaxInvocations == 2
Invocations == 1..MaxInvocations

\* the positions of the handler coroutine: line 212 entered and line 214
\* next, lines 218-347 next, line 350 or 355 next
Inside == {"controller", "branch", "return"}

\* a handler with an await in front of its branch
AwaitBeforeBranch == {"branch"}

\* the positions of handle_call_tool, lines 208-355, that are an await: none
SuspensionPoints == {}

NoTask == [pc |-> "idle", name |-> "", seen |-> ""]

\* the loop can run a step of invocation i: no other coroutine is between
\* its start and its return other than suspended at an await
LoopFree(i) ==
    \A j \in Invocations \ {i} :
        tasks[j].pc \in Inside => tasks[j].pc \in SuspensionPoints

ConcNames == {"sap_scroll", "save_last_screenshot"}
ConcArgs(name) ==
    [NoArgs EXCEPT !["direction"] = IF name = "sap_scroll" THEN "word" ELSE Absent,
                   !["filename"] = IF name = "save_last_screenshot" THEN "word" ELSE Absent]

ConcFrame ==
    /\ UNCHANGED <<call, reply, coreFailed>>
    /\ UNCHANGED <<mapVars, typeVars, integVars, textVars, endVars, actVars, osVars, globVars, locVars, opVars,
                   launchVars>>

\* a request arrives and its handler task is created
Submit(i) ==
    /\ tasks[i].pc = "idle"
    /\ \E name \in ConcNames : tasks' = [tasks EXCEPT ![i] = [NoTask EXCEPT !.pc = "queued",
                                                                         !.name = name]]
    /\ UNCHANGED <<sap, last_screenshot, captured>>
    /\ ConcFrame

\* the loop starts the coroutine: line 212
Begin(i) ==
    /\ tasks[i].pc = "queued"
    /\ LoopFree(i)
    /\ tasks' = [tasks EXCEPT ![i].pc = "controller"]
    /\ UNCHANGED <<sap, last_screenshot, captured>>
    /\ ConcFrame

\* line 214
Controller(i) ==
    /\ tasks[i].pc = "controller"
    /\ LoopFree(i)
    /\ \E ctor \in {"ok", "raise"} :
          LET ctl == get_sap_controller(sap, [ctor |-> ctor])
          IN /\ sap' = ctl.sap
             /\ tasks' = [tasks EXCEPT ![i].pc = IF ctl.exc THEN "return" ELSE "branch",
                                       ![i].seen = last_screenshot]
    /\ UNCHANGED <<last_screenshot, captured>>
    /\ ConcFrame

\* lines 218-347
Branch(i) ==
    /\ tasks[i].pc = "branch"
    /\ LoopFree(i)
    /\ \E core \in CoreOutcomes(tasks[i].name) :
          LET br == ToolBranch(tasks[i].name, ConcArgs(tasks[i].name), core, last_screenshot)
          IN /\ last_screenshot' = br.last_screenshot
             /\ captured' = IF br.captured # "" THEN br.captured ELSE captured
             /\ tasks' = [tasks EXCEPT ![i].pc = "return"]
    /\ UNCHANGED sap
    /\ ConcFrame

\* line 350 or 355: the coroutine ends
Returns(i) ==
    /\ tasks[i].pc = "return"
    /\ LoopFree(i)
    /\ tasks' = [tasks EXCEPT ![i] = NoTask]
    /\ UNCHANGED <<sap, last_screenshot, captured>>
    /\ ConcFrame

\* SapGuiServer.__init__, server.py lines 30-37
ToolIdle ==
    /\ sap = None
    /\ last_screenshot = ""
    /\ captured = ""
    /\ call = NoCall
    /\ reply = NoReply
    /\ coreFailed = FALSE
    /\ tasks = [i \in Invocations |-> NoTask]

\* _ensure_sap_window_active on its own: every window, placement, foreground
\* window and outcome of the three waits
ActInputs ==
    {i \in [hwnd : Handles, minimized : BOOLEAN, waits : [1..3 -> BOOLEAN],
            fg : {None} \cup Handles] :
        \* a window in the foreground is seen there by the first wait
        i.fg = i.hwnd => i.waits[1]}
NoActOut == [done |-> FALSE, trace |-> <<>>, fg |-> None]

Activate ==
    /\ ~actOut.done
    /\ LET r == activation(actIn.hwnd, actIn.minimized, actIn.waits, actIn.fg)
       IN actOut' = [done |-> TRUE, trace |-> r.trace, fg |-> r.fg]
    /\ UNCHANGED <<actIn, waitPc, waitTurns, waitOut, mapVars, typeVars, integVars, textVars, toolVars, endVars, osVars, globVars,
                   locVars, opVars, launchVars>>

\* the next activation, of another window in other circumstances
ActivateAgain ==
    /\ actOut.done
    /\ actIn' \in ActInputs
    /\ actOut' = NoActOut
    /\ UNCHANGED <<waitPc, waitTurns, waitOut, mapVars, typeVars, integVars, textVars, toolVars, endVars, osVars, globVars,
                   locVars, opVars, launchVars>>

\* no activation wait is running
WaitIdle ==
    /\ waitPc = "idle"
    /\ waitTurns = 0
    /\ waitOut = "none"

ActIdle ==
    /\ actIn = [hwnd |-> 1, minimized |-> FALSE, waits |-> [k \in 1..3 |-> TRUE], fg |-> None]
    /\ actOut = NoActOut
    /\ WaitIdle

\* end_session is called, up to MaxEndCalls times in a session
MaxEndCalls == 3

Running == {p \in ProcIds : procs[p]}

EndSession ==
    /\ endCalls < MaxEndCalls
    /\ endCalls' = endCalls + 1
    /\ \E quit \in SUBSET (Running \cap {LaunchedProc}) :
          LET r == IF platform = "windows"
                   THEN end_session_windows(Running)
                   ELSE end_session_macos(Running, quit)
          IN /\ procs' = [p \in ProcIds |-> procs[p] /\ p \notin r.killed]
             /\ endKilled' = r.killed
             /\ endResult' = IF r.raised THEN "raised" ELSE "ok"
    /\ UNCHANGED platform
    /\ UNCHANGED <<mapVars, typeVars, integVars, textVars, toolVars, actVars, osVars, globVars, locVars, opVars,
                   launchVars>>

\* a process starts or exits
ProcessChanges(p) ==
    /\ procs' = [procs EXCEPT ![p] = ~@]
    /\ UNCHANGED <<platform, endResult, endKilled, endCalls>>
    /\ UNCHANGED <<mapVars, typeVars, integVars, textVars, toolVars, actVars, osVars, globVars, locVars, opVars,
                   launchVars>>

EndIdle ==
    /\ platform = "windows"
    /\ procs = [p \in ProcIds |-> FALSE]
    /\ endResult = "none"
    /\ endKilled = {}
    /\ endCalls = 0

----------------------------------------------------------------------------
(* update_settings of integrate.py, lines 46-95.  A file is absent, or holds *)
(* text that is JSON or not; a JSON value is a list or a dict, and a dict   *)
(* has no "mcpServers", one that is no dict, or a dict of server entries.   *)

NoData == [kind |-> "none", mcp |-> "absent", servers |-> {}]
Missing == [exists |-> FALSE, json |-> FALSE, value |-> NoData]
\* text json.load rejects: also what a write that failed midway leaves
NotJson == [exists |-> TRUE, json |-> FALSE, value |-> NoData]

ServerName == "mcp-sap-gui"
ServerSets ==
    {{}, {<<"other", "cfg">>}, {<<ServerName, "old">>},
     {<<"other", "cfg">>, <<ServerName, "old">>}, {<<"other", "cfg">>, <<ServerName, "new">>}}
JsonValues ==
    {[kind |-> "list", mcp |-> "absent", servers |-> {}],
     [kind |-> "dict", mcp |-> "absent", servers |-> {}],
     [kind |-> "dict", mcp |-> "notdict", servers |-> {}]}
        \cup {[kind |-> "dict", mcp |-> "dict", servers |-> S] : S \in ServerSets}

\* json.dump(data, f) and json.load(f)
json_dump(data) == [exists |-> TRUE, json |-> TRUE, value |-> data]
json_load(file) == [raised |-> ~file.json, data |-> file.value]

\* validate_json_structure(data), lines 25-31
validate_json_structure(data) == data.kind = "dict" /\ data.mcp = "dict"

\* get_mcp_config(), lines 33-44
get_mcp_config == "new"

\* line 70: settings["mcpServers"]["mcp-sap-gui"] = mcp_config
SetServer(data) ==
    [data EXCEPT !.servers = {e \in @ : e[1] # ServerName}
                                 \cup {<<ServerName, get_mcp_config>>}]

IntegFrame ==
    UNCHANGED <<mapVars, typeVars, textVars, toolVars, endVars, actVars, osVars, globVars,
                locVars, opVars, launchVars>>

\* update_settings(mode) is called
UpdateStart ==
    /\ upc = "idle"
    /\ upc' = "exists"
    /\ uLog' = <<>>
    /\ uOrig' = disk.settings
    /\ UNCHANGED disk
    /\ IntegFrame

\* lines 50-53
CheckExists ==
    /\ upc = "exists"
    /\ upc' = IF disk.settings.exists THEN "load" ELSE "failed"
    /\ UNCHANGED <<disk, uLog, uOrig>>
    /\ IntegFrame

\* lines 56-62: read and validate; ok is whether the file could be read
LoadSettings(ok) ==
    /\ upc = "load"
    /\ IF ok /\ ~json_load(disk.settings).raised
             /\ validate_json_structure(json_load(disk.settings).data)
       THEN /\ upc' = "backup"
            /\ uLog' = Append(uLog, "validated")
       ELSE /\ upc' = "failed"
            /\ UNCHANGED uLog
    /\ UNCHANGED <<disk, uOrig>>
    /\ IntegFrame

\* line 65 and create_backup, lines 18-23: shutil.copy2 to the timestamped name
CreateBackup(ok) ==
    /\ upc = "backup"
    /\ IF ok
       THEN /\ disk' = [disk EXCEPT !.backup = disk.settings]
            /\ upc' = "write"
            /\ uLog' = Append(uLog, "backup")
       ELSE /\ upc' = "failed"
            /\ UNCHANGED <<disk, uLog>>
    /\ UNCHANGED uOrig
    /\ IntegFrame

\* the updated settings written over the settings file itself
WriteInPlace(ok) ==
    /\ upc = "write"
    /\ IF ok
       THEN /\ disk' = [disk EXCEPT
                           !.settings = json_dump(SetServer(json_load(disk.settings).data))]
            /\ upc' = "revalidate"
            /\ uLog' = Append(uLog, "written")
       ELSE /\ disk' = [disk EXCEPT !.settings = NotJson]
            /\ upc' = "failed"
            /\ UNCHANGED uLog
    /\ UNCHANGED uOrig
    /\ IntegFrame

\* lines 69-75: the updated settings go to the temporary file; a write that
\* fails leaves what it had written
WriteTemp(ok) ==
    /\ upc = "write"
    /\ IF ok
       THEN /\ disk' = [disk EXCEPT
                           !.temp = json_dump(SetServer(json_load(disk.settings).data))]
            /\ upc' = "revalidate"
            /\ uLog' = Append(uLog, "written")
       ELSE /\ disk' = [disk EXCEPT !.temp = NotJson]
            /\ upc' = "failed"
            /\ UNCHANGED uLog
    /\ UNCHANGED uOrig
    /\ IntegFrame

\* lines 78-83: the temporary file is read back and validated
Revalidate(ok) ==
    /\ upc = "revalidate"
    /\ IF ~ok \/ json_load(disk.temp).raised
       THEN /\ upc' = "failed"
            /\ UNCHANGED <<disk, uLog>>
       ELSE IF ~validate_json_structure(json_load(disk.temp).data)
       THEN \* os.unlink(temp_path)
            /\ disk' = [disk EXCEPT !.temp = Missing]
            /\ upc' = "failed"
            /\ UNCHANGED uLog
       ELSE /\ upc' = "replace"
            /\ uLog' = Append(uLog, "revalidated")
            /\ UNCHANGED disk
    /\ UNCHANGED uOrig
    /\ IntegFrame

\* line 86: os.replace(temp_path, settings_path)
Replace(ok) ==
    /\ upc = "replace"
    /\ IF ok
       THEN /\ disk' = [disk EXCEPT !.settings = disk.temp, !.temp = Missing]
            /\ upc' = "done"
            /\ uLog' = Append(uLog, "replaced")
       ELSE /\ upc' = "failed"
            /\ UNCHANGED <<disk, uLog>>
    /\ UNCHANGED uOrig
    /\ IntegFrame

\* the script ends: line 87, or sys.exit(1)
UpdateExit ==
    /\ upc \in {"done", "failed"}
    /\ upc' = "idle"
    /\ UNCHANGED <<disk, uLog, uOrig>>
    /\ IntegFrame

\* the user edits, damages or removes the settings file between two runs
SettingsEdited ==
    /\ upc = "idle"
    /\ \E f \in {Missing, NotJson} \cup {json_dump(v) : v \in JsonValues} :
          /\ f # disk.settings
          /\ disk' = [disk EXCEPT !.settings = f]
    /\ UNCHANGED <<upc, uLog, uOrig>>
    /\ IntegFrame

IntegIdle ==
    /\ disk = [settings |-> Missing, backup |-> Missing, temp |-> Missing]
    /\ upc = "idle"
    /\ uLog = <<>>
    /\ uOrig = Missing

NextInteg ==
    \/ UpdateStart
    \/ CheckExists
    \/ \E ok \in BOOLEAN : LoadSettings(ok)
    \/ \E ok \in BOOLEAN : CreateBackup(ok)
    \/ \E ok \in BOOLEAN : WriteTemp(ok)
    \/ \E ok \in BOOLEAN : Revalidate(ok)
    \/ \E ok \in BOOLEAN : Replace(ok)
    \/ UpdateExit
    \/ SettingsEdited

PureIdle == MapIdle /\ TypeIdle /\ TextIdle /\ ToolIdle /\ EndIdle /\ ActIdle /\ IntegIdle

\* No launch has run
LaunchIdle ==
    /\ procUp = FALSE
    /\ lpc = "idle"
    /\ launchEnv = NoLaunchEnv
    /\ current_process = None
    /\ procPolls = 0
    /\ launchResult = "none"
    /\ launchTrace = <<>>
    /\ launchFailures = {}

Init ==
    /\ win = [h \in Handles |-> "closed"]
    /\ fg = None
    /\ dpi_scale = DpiBase
    /\ OpsIdle
    /\ LaunchIdle
    /\ PureIdle
    /\ main_window_hwnd = None
    /\ popup_hwnd = None
    /\ pc = "idle"
    /\ process_pid = SapPid
    /\ found_window = FALSE
    /\ passes = 0
    /\ findResult = "none"
    /\ rec = NoRec
    /\ passSeen = {}
    /\ passTrace = <<>>

Next ==
    \/ \E pid \in Pids : StartFind(pid)
    \/ \E order \in EnumOrders : EnumPass(order)
    \/ ReturnFound
    \/ ReturnTimeout
    \/ \E h \in Handles, s \in WinStates : WindowChanges(h, s)

Spec == Init /\ [][Next]_vars

\* The interactive operations on every desktop and every cached handle the
\* locator can have left behind
SystemDpis == {144}

\* the direction values given to scroll_screen
Directions ==
    {<<"d", "o", "w", "n">>, <<"D", "o", "w", "n">>, <<"u", "p">>, <<>>}

InitOps ==
    /\ win \in [Handles -> WinStates]
    /\ \A h \in Handles : win[h] \in WinStatesOf(h)
    /\ fg \in {None} \cup {h \in Handles : win[h] = "visible"}
    /\ dpi_scale \in {get_dpi_scale(d) : d \in SystemDpis}
    /\ OpsIdle
    /\ LaunchIdle
    /\ PureIdle
    /\ main_window_hwnd \in {None, 2, 5}
    /\ popup_hwnd \in {None, 1}
    /\ pc = "idle"
    /\ process_pid = SapPid
    /\ found_window = FALSE
    /\ passes = 0
    /\ findResult = "none"
    /\ rec = NoRec
    /\ passSeen = {}
    /\ passTrace = <<>>

NextOps ==
    \/ \E x, y \in ArgCoords, order \in EnumOrders, tier \in Tiers :
          sap_click(x, y, order, tier)
    \/ \E x, y \in ArgCoords, order \in EnumOrders, tier \in Tiers :
          sap_move_mouse(x, y, order, tier)
    \/ \E direction \in Directions, order \in EnumOrders, tier \in Tiers :
          scroll_screen(direction, order, tier)
    \/ \E text \in {HelloTabWorld}, order \in EnumOrders, tier \in Tiers :
          type_text_windows(text, order, tier)
    \/ \E order \in EnumOrders, tier \in Tiers, staleFails \in BOOLEAN :
          get_window_text(order, tier, staleFails)
    \/ \E activated \in BOOLEAN : handle_multiple_logon_popup(activated)
    \/ OpReturns

SpecOps == InitOps /\ [][NextOps]_vars

\* what GetDpiForSystem can answer when SapController() is constructed: no
\* answer, 100 %, 125 %, 150 %, 200 %
DpiQueries == {0, 96, 120, 144, 192}

\* a controller constructed (lines 237-241) on a desktop with the popup and
\* the main window open, after which the operations run in any order
InitDpi ==
    /\ win = [h \in Handles |-> IF h \in {1, 2} THEN "visible" ELSE "closed"]
    /\ fg \in {None, 2}
    /\ dpi_scale \in {get_dpi_scale(d) : d \in DpiQueries}
    /\ OpsIdle
    /\ LaunchIdle
    /\ PureIdle
    /\ main_window_hwnd \in {None, 2}
    /\ popup_hwnd = 1
    /\ pc = "idle"
    /\ process_pid = SapPid
    /\ found_window = FALSE
    /\ passes = 0
    /\ findResult = "none"
    /\ rec = NoRec
    /\ passSeen = {}
    /\ passTrace = <<>>

SpecDpi == InitDpi /\ [][NextOps]_vars

\* launch_transaction on a desktop where the target process opens the popup,
\* the main window and the launcher window
LaunchWindows == {1, 2, 3}

NextLaunch ==
    \/ \E env \in LaunchEnvs : LaunchStart(env)
    \/ ProcPoll
    \/ ProcPollTimeout
    \/ LaunchFind
    \/ \E order \in EnumOrders : EnumPass(order)
    \/ ReturnFound
    \/ ReturnTimeout
    \/ LaunchFinish
    \/ end_session
    \/ ProcessStarts
    \/ \E h \in LaunchWindows, s \in WinStates :
          lpc \in {"procFound", "find"} /\ WindowChanges(h, s)
    \/ \E h \in LaunchWindows : ForegroundChanges(h)

SpecLaunch == Init /\ [][NextLaunch]_vars

\* Everything but the coordinate mapper at rest
SessionIdle ==
    /\ win = [h \in Handles |-> "closed"]
    /\ fg = None
    /\ dpi_scale = DpiBase
    /\ OpsIdle
    /\ LaunchIdle
    /\ main_window_hwnd = None
    /\ popup_hwnd = None
    /\ pc = "idle"
    /\ process_pid = SapPid
    /\ found_window = FALSE
    /\ passes = 0
    /\ findResult = "none"
    /\ rec = NoRec
    /\ passSeen = {}
    /\ passTrace = <<>>
    /\ IntegIdle

InitMap ==
    /\ SessionIdle
    /\ EndIdle
    /\ ActIdle
    /\ TypeIdle
    /\ TextIdle
    /\ ToolIdle
    /\ mapIn \in MapInputs
    /\ mapOut = NoMapOut

NextMap == MapClick \/ MapMove \/ MapPopup \/ MapClickMacos \/ MapMoveMacos

SpecMap == InitMap /\ [][NextMap]_vars

InitType ==
    /\ SessionIdle
    /\ EndIdle
    /\ ActIdle
    /\ MapIdle
    /\ TextIdle
    /\ ToolIdle
    /\ typeIn \in TypeInputs
    /\ typeOut = NoTypeOut
    /\ typeAt = NoParse

NextType == TypeText

SpecType == InitType /\ [][NextType]_vars

NextText == \E text \in ChildTexts : EnumChild(text)

SpecText == Init /\ [][NextText]_vars

NextTool ==
    \/ CallTool
    \/ HandleCallTool
    \/ CallReturns

SpecTool == Init /\ [][NextTool]_vars

NextConc ==
    \E i \in Invocations :
        \/ Submit(i)
        \/ Begin(i)
        \/ Controller(i)
        \/ Branch(i)
        \/ Returns(i)

SpecConc == Init /\ [][NextConc]_vars

InitAct ==
    /\ SessionIdle
    /\ MapIdle /\ TypeIdle /\ TextIdle /\ ToolIdle /\ EndIdle
    /\ actIn \in ActInputs
    /\ actOut = NoActOut
    /\ WaitIdle

NextAct ==
    \/ Activate
    \/ ActivateAgain

SpecAct == InitAct /\ [][NextAct]_vars

InitEnd ==
    /\ SessionIdle
    /\ MapIdle /\ TypeIdle /\ TextIdle /\ ToolIdle /\ ActIdle
    /\ platform \in {"windows", "macos"}
    /\ procs = [p \in ProcIds |-> FALSE]
    /\ endResult = "none"
    /\ endKilled = {}
    /\ endCalls = 0

NextEnd ==
    \/ EndSession
    \/ \E p \in ProcIds : ProcessChanges(p)

SpecEnd == InitEnd /\ [][NextEnd]_vars

----------------------------------------------------------------------------
(* Window Locator *)

IsLauncher(h) == Contains(LogonMarker, Title(h))
IsPopup(h) == Contains(PopupMarker, Title(h))

\* C1: a window whose title contains "SAP Logon" is never recorded as the
\* main-window handle and never makes a pass set the found flag
C1_LauncherNeverMain ==
    /\ main_window_hwnd # None => ~IsLauncher(main_window_hwnd)
    /\ rec.hwnd # None => ~IsLauncher(rec.hwnd)
    /\ found_window => rec.hwnd # None /\ main_window_hwnd = rec.hwnd

\* A pass has seen the launcher window as the only window of the process and
\* has not reported a main window
C1_Witness ==
    /\ pc = "loop"
    /\ passes >= 1
    /\ process_pid = SapPid
    /\ passSeen = {3}
    /\ ~found_window
    /\ main_window_hwnd = None

\* C2: a window recorded as main was, in that pass, visible, owned by the
\* given process id and not titled as the multi-logon popup; the popup is
\* never the main handle
C2_MainIsEligible ==
    /\ rec.hwnd # None =>
          /\ rec.visible
          /\ rec.pid = rec.want
          /\ ~IsPopup(rec.hwnd)
          /\ main_window_hwnd = rec.hwnd
    /\ main_window_hwnd # None => ~IsPopup(main_window_hwnd)

\* A pass that saw the popup recorded another window as main
C2_Witness ==
    /\ pc = "settle"
    /\ rec.hwnd = 2
    /\ 1 \in passSeen
    /\ popup_hwnd = 1

\* C3: a call that finds the popup and the main window in one pass has run
\* the Dialog Resolver exactly once when it is about to return 'found'
C3_ResolverOnce ==
    (pc = "settle" /\ \E h \in passSeen : IsPopup(h)) =>
        /\ popup_hwnd # None
        /\ IsPopup(popup_hwnd)
        /\ resolverCalls = 1

\* the places of the last pass's trace where a window was recorded as main
MainAt == {i \in DOMAIN passTrace : passTrace[i][1] = "main"}
PopupAt == {i \in DOMAIN passTrace : passTrace[i][1] = "popup"}
ResolvedAt == {i \in DOMAIN passTrace : passTrace[i][1] = "resolved"}

\* C22: in a pass that meets the popup, no window is recorded as the main
\* window before the popup has been resolved, whatever the enumeration order
C22_PopupBeforeMain ==
    PopupAt # {} =>
        \A i \in MainAt : \E j \in ResolvedAt : j < i

\* the places where the call that is to resolve the popup raised
RaisedAt == {i \in DOMAIN passTrace : passTrace[i][1] = "raised"}

\* C23: a launch whose search had the resolution of the popup fail does not
\* go on to report the main window as found
C23_ResolverFailureRaised ==
    (lpc = "find" /\ RaisedAt # {}) => pc # "settle"

\* the search returns r in this step
FindReturns(r) == pc # "idle" /\ pc' = "idle" /\ findResult' = r
\* the pass just made recorded a visible window of the wanted process
PassObserved ==
    /\ found_window
    /\ MainAt # {}
    /\ rec.hwnd # None /\ rec.visible /\ rec.pid = process_pid
    /\ ~IsLauncher(rec.hwnd) /\ ~IsPopup(rec.hwnd)

\* C26: the search returns 'found' exactly after a pass that observed an
\* eligible main window, with no pass made in between, and returns 'not
\* found' only after at least one pass and with no pass having observed one
C26_FoundIffObserved ==
    [][/\ FindReturns("found") => pc = "settle" /\ PassObserved
       /\ FindReturns("timeout") => passes >= 1 /\ ~found_window /\ MainAt = {}
       /\ (pc # "idle" /\ pc' = "idle") => findResult' \in {"found", "timeout"}
       /\ PassObserved => passes' <= passes
       /\ (pc = "loop" /\ passes' = passes + 1) =>
              (pc' = "settle" <=> found_window' /\ Len(passTrace') > 0
                                  /\ \E i \in DOMAIN passTrace' : passTrace'[i][1] = "main")]_vars

\* the second pass of a search has just recorded the main window, which the
\* first pass had not seen
C26_Witness ==
    /\ pc = "settle"
    /\ passes = 2
    /\ PassObserved
    /\ main_window_hwnd = 2

----------------------------------------------------------------------------
(* Stale handles *)

\* C4: every window handle an interactive operation passes to an OS call is
\* a live window that the operation validated, and after a fall-back to
\* find-any the operation works on the re-discovered window only
C4_NoStaleHandle ==
    opName # "none" =>
        /\ \A h \in opUsed : IsWindow(h) /\ h \in opValidated
        /\ (opHwnd # None /\ opHwnd # main_window_hwnd) => opUsed \subseteq {opHwnd}

----------------------------------------------------------------------------
(* Launch *)

\* C5: a launch that finds one of the four credentials absent (or empty)
\* fails with no side effect: no taskkill, no spawn, no poll, no window
\* search, no screenshot
C5_NoSpawnWithoutCreds ==
    ~AllCreds(launchEnv) =>
        /\ launchResult = "error"
        /\ launchTrace = <<>>
        /\ lpc = "idle"

\* After a launch that succeeded, a launch without SAP_PASSWORD failed and
\* left the running process alone
C5_Witness ==
    /\ launchEnv.exe
    /\ launchEnv.creds["SAP_PASSWORD"] = "absent"
    /\ launchResult = "error"
    /\ procUp
    /\ main_window_hwnd = 2

\* the running or last launch saw the saplogon.exe process within its poll
\* loop: only then does it go on to the window search
ProcessAppeared == \E i \in 1..Len(launchTrace) : launchTrace[i] = "find"

\* C15: a launch returns an image only if the launcher binary exists, the
\* four credentials are there, the process appeared within the poll window
\* and the window search reported a main window; a launch that is over
\* without all of that has raised
C15_ImageOnlyIf ==
    /\ launchResult = "image" =>
          /\ launchEnv.exe
          /\ AllCreds(launchEnv)
          /\ ProcessAppeared
          /\ findResult = "found"
    /\ (/\ lpc = "idle"
        /\ launchResult # "none"
        /\ ~(/\ launchEnv.exe
             /\ AllCreds(launchEnv)
             /\ ProcessAppeared
             /\ findResult = "found"))
          => launchResult = "error"

\* a launch has returned an image
C15_Witness ==
    /\ launchResult = "image"
    /\ lpc = "idle"
    /\ launchEnv.exe
    /\ AllCreds(launchEnv)
    /\ ProcessAppeared
    /\ findResult = "found"
    /\ main_window_hwnd # None

LaunchFailure == {"executable", "credentials", "process", "window"}

----------------------------------------------------------------------------
(* Coordinate Mapper *)

MapWidth == mapIn.rect[3] - mapIn.rect[1]
MapHeight == mapIn.rect[4] - mapIn.rect[2]
MapOutOfRange ==
    mapIn.x < 0 \/ mapIn.y < 0 \/ mapIn.x > MapWidth \/ mapIn.y > MapHeight

\* C6: for a point within the window the mapper of click and of move gives
\* screen = window origin + point * scale, from which the point is recovered
\* by subtracting the origin and dividing by the scale
C6_ToScreen ==
    (mapOut.op \in {"click", "move"} /\ ~MapOutOfRange) =>
        /\ ~mapOut.raised
        /\ mapOut.screen[1] = DpiBase * mapIn.rect[1] + mapIn.x * mapIn.scale
        /\ mapOut.screen[2] = DpiBase * mapIn.rect[2] + mapIn.y * mapIn.scale
        /\ (mapOut.screen[1] - DpiBase * mapIn.rect[1]) % mapIn.scale = 0
        /\ (mapOut.screen[1] - DpiBase * mapIn.rect[1]) \div mapIn.scale = mapIn.x
        /\ (mapOut.screen[2] - DpiBase * mapIn.rect[2]) % mapIn.scale = 0
        /\ (mapOut.screen[2] - DpiBase * mapIn.rect[2]) \div mapIn.scale = mapIn.y

\* move has mapped an inner point of a window away from the origin at a scale
\* of 1.25
C6_Witness ==
    /\ mapOut.op = "move"
    /\ mapIn.rect = <<5, 5, 7, 7>>
    /\ mapIn.x = 1
    /\ mapIn.y = 2
    /\ mapIn.scale = 120
    /\ mapOut.screen = <<600, 720>>

\* C7: with the bounds check on, the mapper fails exactly for the points with
\* x < 0, y < 0, x > width or y > height
C7_BoundsCheck ==
    (mapOut.op \in {"click", "move"} /\ mapIn.check) => (mapOut.raised <=> MapOutOfRange)

\* click has accepted the far corner (width, height) of a window
C7_Witness ==
    /\ mapOut.op = "click"
    /\ mapIn.check
    /\ MapWidth = 2
    /\ MapHeight = 1
    /\ mapIn.x = MapWidth
    /\ mapIn.y = MapHeight
    /\ ~mapOut.raised
    /\ mapOut.events = <<"moveTo", "click">>

\* C29: for a popup rectangle of positive width and height the point the
\* resolver clicks lies within the rectangle, whatever the scale
C29_PopupClickInBounds ==
    (mapOut.op = "popup" /\ MapWidth > 0 /\ MapHeight > 0) =>
        /\ ~mapOut.raised
        /\ DpiBase * mapIn.rect[1] <= mapOut.screen[1]
        /\ mapOut.screen[1] <= DpiBase * mapIn.rect[3]
        /\ DpiBase * mapIn.rect[2] <= mapOut.screen[2]
        /\ mapOut.screen[2] <= DpiBase * mapIn.rect[4]

----------------------------------------------------------------------------
(* typeText *)

\* The tokens of the markup: the named keys and {F1} ... {F16}
FunctionKeys ==
    {<<"F", d>> : d \in Digits \ {"0"}}
        \cup {<<"F", "1", d>> : d \in {"0", "1", "2", "3", "4", "5", "6"}}
RecognizedKeys == MappingKeys \cup FunctionKeys

\* the token that starts at position i of text, if one does
TokenAt(text, i) ==
    IF text[i] = "~" THEN [len |-> 1, key |-> <<"E", "N", "T", "E", "R">>]
    ELSE IF /\ text[i] = "{"
            /\ Find(text, "}", i) # 0
            /\ Upper(SubSeq(text, i + 1, Find(text, "}", i) - 1)) \in RecognizedKeys
    THEN [len |-> Find(text, "}", i) - i + 1,
          key |-> Upper(SubSeq(text, i + 1, Find(text, "}", i) - 1))]
    ELSE [len |-> 0, key |-> <<>>]

RECURSIVE Tokenize(_, _, _)
\* one key press per token, one literal entry per maximal run of the rest
Tokenize(text, i, run) ==
    IF i > Len(text) THEN (IF run # <<>> THEN <<Write(run)>> ELSE <<>>)
    ELSE IF TokenAt(text, i).len > 0
    THEN (IF run # <<>> THEN <<Write(run)>> ELSE <<>>)
         \o <<Press(TokenAt(text, i).key)>>
         \o Tokenize(text, i + TokenAt(text, i).len, <<>>)
    ELSE Tokenize(text, i + 1, Append(run, text[i]))

\* C8: type_text emits the event sequence of the input's tokens: a key press
\* per recognized token, a literal entry per maximal run of other characters
C8_Tokenizes ==
    typeOut.done => typeOut.events = Tokenize(typeIn, 1, <<>>)

----------------------------------------------------------------------------
(* extractText *)

HasError(text) == \E k \in ErrorKeywords : Contains(k, Lower(text))
HasStatus(text) == \E k \in StatusKeywords : Contains(k, Lower(text))
HasColon(text) == \E i \in 1..Len(text) : text[i] = ":"

\* the outcome the priority order gives a child-window string
Outcome(text) ==
    CASE text = <<>> \/ text \in UI_ELEMENTS -> "discarded"
      [] OTHER ->
           IF HasError(text) THEN "error"
           ELSE IF HasStatus(text) THEN "status"
           ELSE IF HasColon(text) THEN "field"
           ELSE "discarded"

\* C9: each child-window string goes to exactly one outcome, in the priority
\* order discarded (empty or deny-listed), error, status, field, discarded;
\* the other collections are left as they were
C9_OneOutcome ==
    childCount > 0 =>
        LET o == Outcome(childText)
        IN /\ (o = "error") =
                  (window_text.error_messages = Append(prevResult.error_messages, childText))
           /\ (o # "error") = (window_text.error_messages = prevResult.error_messages)
           /\ (o = "status") =
                  (window_text.status_messages = Append(prevResult.status_messages, childText))
           /\ (o # "status") = (window_text.status_messages = prevResult.status_messages)
           /\ (o = "field") =>
                  LET label == Strip(SplitColon(childText)[1])
                  IN /\ DOMAIN window_text.field_values =
                            DOMAIN prevResult.field_values \cup {label}
                     /\ \A k \in DOMAIN prevResult.field_values \ {label} :
                            window_text.field_values[k] = prevResult.field_values[k]
           /\ (o # "field") => (window_text.field_values = prevResult.field_values)

\* a string with an error keyword and also a status keyword or a colon has
\* been recorded, as an error only
C9_Witness ==
    /\ childCount > 0
    /\ HasError(childText)
    /\ HasStatus(childText) \/ HasColon(childText)
    /\ window_text.error_messages = Append(prevResult.error_messages, childText)
    /\ window_text.status_messages = prevResult.status_messages
    /\ window_text.field_values = prevResult.field_values
    /\ prevResult # EmptyResult

----------------------------------------------------------------------------
(* Tool adapter *)

IsErrorText(entry) ==
    /\ entry.type = "text"
    /\ entry.text[1] = "Error: "

C11_InvalidInputRaises ==
    (reply.done /\ coreFailed /\ call.name \in {"launch_transaction", "sap_click"})
        => reply.propagated

----------------------------------------------------------------------------
(* Errors of the interactive operations *)

\* the operation was a click or a move called with a coordinate that is no
\* integer
Malformed ==
    /\ opName \in {"click", "move"}
    /\ ~opArgs[1].int \/ ~opArgs[2].int

\* C12: sap_click and sap_move_mouse with a non-integer x or y end in an error
\* with no side effect: no window was activated, restored or maximized and
\* no pointer event was issued
C12_ErrorBeforeSideEffect ==
    Malformed =>
        /\ opResult = "error"
        /\ opTrace = <<>>
        /\ opHwnd = None
        /\ pointer = <<>>

Interactive == {"click", "move", "type", "scroll", "text"}

\* the activation of the operation ended in the warning of line 377
Warned ==
    /\ opName \in Interactive
    /\ \E i \in 1..Len(opTrace) : opTrace[i] = "warning"

\* the operation dispatched its input
Dispatched ==
    CASE opName \in {"click", "move"} -> pointer # <<>>
      [] opName = "scroll" -> Len(wheel) = 1
      [] opName = "type" -> \E i \in 1..Len(opTrace) : opTrace[i] = "sendkeys"
      [] opName = "text" -> \E i \in 1..Len(opTrace) : opTrace[i] = "read"
      [] OTHER -> FALSE

\* nothing but the activation stands in the operation's way: some window is
\* in the foreground, the cached handle is a window, and the point is an
\* integer point inside it
NothingElseFails ==
    /\ fg # None
    /\ opName \in {"click", "move", "text"} => IsWindow(main_window_hwnd)
    /\ opName \in {"click", "move"} =>
          /\ ~Malformed
          /\ \A i \in 1..2 :
                /\ 0 <= opArgs[i].val
                /\ opArgs[i].val <= GetWindowRect(main_window_hwnd)[i + 2]
                                        - GetWindowRect(main_window_hwnd)[i]

NoTarget ==
    /\ main_window_hwnd = None \/ win[main_window_hwnd] = "closed"
    /\ \A h \in Handles :
          ~(/\ win[h] = "visible"
            /\ WindowPid(h) = SapPid
            /\ ~Contains(LogonMarker, Title(h)))

\* C14: with no cached live window and nothing for the find-any fallback,
\* click, move, type, scroll and extractText fail, having dispatched no
\* pointer, keyboard or wheel event and captured no screenshot
C14_NoWindowNoEvents ==
    (opName \in Interactive /\ NoTarget) =>
        /\ opResult = "error"
        /\ opTrace = <<>>
        /\ pointer = <<>>
        /\ wheel = <<>>

\* a scroll failed that way while the cached handle was stale and other
\* windows were on the screen
C14_Witness ==
    /\ opName = "scroll"
    /\ NoTarget
    /\ main_window_hwnd # None
    /\ \E h \in Handles : win[h] = "visible"
    /\ opResult = "error"
    /\ opTrace = <<>>
    /\ wheel = <<>>

----------------------------------------------------------------------------
(* end_session *)

\* C17: end_session completes without raising whether or not the processes
\* of the target application are running, and once it has completed the
\* previously launched process is not alive
C17_EndSessionBestEffort ==
    [][EndSession => /\ endResult' = "ok"
                     /\ ~procs'[LaunchedProc]]_vars

----------------------------------------------------------------------------
(* save_last_screenshot *)

SaveReturned == reply.done /\ call.name = "save_last_screenshot"
Confirmation == <<TextContent(<<"Screenshot saved to ", call.arguments["filename"]>>)>>
SavedFile == [name |-> call.arguments["filename"], image |-> last_screenshot]
\* the error texts of a call made before any screenshot was retained: line
\* 323, and lines 352-355 when the controller could not be constructed
NoScreenshotErrors ==
    {<<TextContent(<<"Error: No screenshot available">>)>>, ErrorReply(call.name, "ctor")}

----------------------------------------------------------------------------
(* Invocations on the event loop *)

Active == {i \in Invocations : tasks[i].pc \in Inside}

\* C19: no two invocations interleave: at most one handler is between its
\* start and its return, and the last screenshot an invocation saw when it
\* started is still the retained one when its branch runs, so no other
\* invocation wrote the session state in between
C19_NoInterleaving ==
    /\ Cardinality(Active) <= 1
    /\ \A i \in Invocations : tasks[i].pc = "branch" => tasks[i].seen = last_screenshot

\* one invocation is in the middle of its handler, with a screenshot
\* retained, while another has arrived and waits for the loop
C19_Witness ==
    \E i, j \in Invocations :
        /\ tasks[i].pc = "branch"
        /\ tasks[j].pc = "queued"
        /\ last_screenshot # ""

----------------------------------------------------------------------------
(* scroll_screen *)

\* a scroll call that got as far as its wheel event
Scrolled == opName = "scroll" /\ opTrace # <<>>

\* the statement as the specification words it: the delta is -5 for the
\* direction "down" and +5 for every other direction value
C20_DownOnly ==
    Scrolled => wheel = <<IF opArgs[1] = <<"d", "o", "w", "n">> THEN -5 ELSE 5>>

\* C20: a scroll call that reaches its dispatch sends exactly one wheel
\* event, with delta -5 when the direction is "down" in any letter case and
\* +5 for every other direction value, and the macOS controller sends the
\* same event for the same direction; a call that fails before the dispatch
\* sends none
C20_ScrollDelta ==
    opName = "scroll" =>
        /\ Len(wheel) <= 1
        /\ Scrolled =>
              /\ wheel = scroll_screen_macos(opArgs[1])
              /\ wheel[1] = -5 <=> LowerStr(opArgs[1]) = <<"d", "o", "w", "n">>
              /\ wheel[1] = 5 <=> LowerStr(opArgs[1]) # <<"d", "o", "w", "n">>
        /\ ~Scrolled => wheel = <<>>

\* a scroll call with the direction "Down" ended well with a delta of -5
C20_Witness ==
    /\ opName = "scroll"
    /\ opResult = "ok"
    /\ opArgs = <<(<<"D", "o", "w", "n">>)>>
    /\ wheel = <<-5>>

----------------------------------------------------------------------------
(* The DPI scale *)

\* C21: the scale the controller was constructed with is systemDPI / 96, or
\* 1 when the query failed, is strictly positive, and no operation changes it
C21_DpiScaleFixed ==
    /\ [](dpi_scale > 0)
    /\ [](dpi_scale \in (DpiQueries \ {0}) \cup {DpiBase})
    /\ [][dpi_scale' = dpi_scale]_vars

\* a click went through on a controller whose DPI query had answered 150 %:
\* the pointer is at the window's corner plus 1.5 pixel each way
C21_Witness ==
    /\ opName = "click"
    /\ opResult = "ok"
    /\ dpi_scale = 144
    /\ opArgs = <<Coord(1), Coord(1)>>
    /\ pointer = <<GetWindowRect(2)[1] * DpiBase + 144, GetWindowRect(2)[2] * DpiBase + 144>>

----------------------------------------------------------------------------
(* The order of an activation *)

StepRank(step) ==
    CASE step = "restore"  -> 1
      [] step = "maximize" -> 2
      [] step = "tier1"    -> 3
      [] step = "tier2"    -> 4
      [] step = "tier3"    -> 5
      [] OTHER             -> 6
Did(step) == \E i \in DOMAIN actOut.trace : actOut.trace[i] = step

\* C24: an activation goes restore (only if minimized), maximize, tier 1,
\* tier 2, tier 3 in that order; a tier is tried only when the wait of every
\* earlier tier ended without the window in the foreground, and nothing
\* follows the first tier whose wait saw it there
C24_ActivationOrder ==
    actOut.done =>
        LET trace == actOut.trace
            waits == actIn.waits
        IN /\ \A i, j \in DOMAIN trace : i < j => StepRank(trace[i]) < StepRank(trace[j])
           /\ Did("restore") <=> actIn.minimized
           /\ Did("maximize") /\ Did("tier1")
           /\ Did("tier2") <=> ~waits[1]
           /\ Did("tier3") <=> ~waits[1] /\ ~waits[2]
           /\ Did("warning") <=> ~waits[1] /\ ~waits[2] /\ ~waits[3]
           /\ \A k \in 1..3 :
                 (waits[k] /\ \A m \in 1..(k - 1) : ~waits[m]) =>
                     /\ StepRank(trace[Len(trace)]) = k + 2
                     /\ actOut.fg = actIn.hwnd

\* a minimized window came to the foreground at the second tier although the
\* third wait would have seen it there too
C24_Witness ==
    /\ actOut.done
    /\ actIn.minimized
    /\ actIn.waits = <<FALSE, TRUE, TRUE>>
    /\ actOut.trace = <<"restore", "maximize", "tier1", "tier2">>
    /\ actOut.fg = actIn.hwnd

----------------------------------------------------------------------------
(* The order of an operation *)

ActivationSteps == {"restore", "maximize", "tier1", "tier2", "tier3", "warning"}
\* 1: a step of the activation, 2: an input event, 3: the settle delay,
\* 4: the capture
StepKind(step) ==
    CASE step \in ActivationSteps -> 1
      [] step = "settle"          -> 3
      [] step = "screenshot"      -> 4
      [] OTHER                    -> 2
Steps(kind) == {i \in DOMAIN opTrace : StepKind(opTrace[i]) = kind}
InputsOf(name) ==
    CASE name = "click"  -> <<"moveTo", "click">>
      [] name = "move"   -> <<"moveTo">>
      [] name = "type"   -> <<"sendkeys">>
      [] name = "scroll" -> <<"scroll">>

\* C25: a click, move, type or scroll that succeeds has first the whole
\* activation, then its input events, then the settle delay, then exactly
\* one capture
C25_OperationOrder ==
    (opName \in {"click", "move", "type", "scroll"} /\ opResult = "ok") =>
        /\ \A i, j \in DOMAIN opTrace : i < j => StepKind(opTrace[i]) <= StepKind(opTrace[j])
        /\ Steps(1) # {}
        /\ [i \in 1..Cardinality(Steps(2)) |-> opTrace[Cardinality(Steps(1)) + i]]
              = InputsOf(opName)
        /\ Cardinality(Steps(3)) = 1
        /\ Cardinality(Steps(4)) = 1
        /\ opTrace[Len(opTrace)] = "screenshot"

\* a scroll went out after the second tier had brought the window forward,
\* and the capture came last
C25_Witness ==
    /\ opName = "scroll"
    /\ opResult = "ok"
    /\ opTrace = <<"maximize", "tier1", "tier2", "scroll", "settle", "screenshot">>

----------------------------------------------------------------------------
(* The cached popup handle *)

\* the resolver has run its whole sequence on the cached popup handle
PopupResolved == opName = "popup" /\ opResult = "ok" /\ opUsed # {}

\* C27: once the popup has been resolved, the cached popup handle is cleared
C27_PopupHandleCleared ==
    PopupResolved => popup_hwnd = None

----------------------------------------------------------------------------
(* What the session holds after it ended *)

\* C28: when end_session completes the session holds neither the cached
\* main-window handle nor the reference to the launched process, and a
\* launch whose window search timed out leaves no main-window handle cached
C28_SessionInvalidated ==
    [][/\ end_session => main_window_hwnd' = None /\ current_process' = None
       /\ (lpc = "find" /\ lpc' = "idle" /\ findResult = "timeout") =>
              main_window_hwnd' = None]_vars

----------------------------------------------------------------------------
(* The Dialog Resolver's sequence *)

\* the point at half the width and 38 % of the height of the popup, scaled
PopupTarget ==
    LET rect == GetWindowRect(popup_hwnd)
    IN <<rect[1] * DpiBase + ((rect[3] - rect[1]) \div 2) * dpi_scale,
         rect[2] * DpiBase + ((38 * (rect[4] - rect[2])) \div 100) * dpi_scale>>

----------------------------------------------------------------------------
(* typeText: no character lost *)

RECURSIVE Literals(_)
\* the texts of the literal entries of an event sequence, joined in order
Literals(events) ==
    IF events = <<>> THEN <<>>
    ELSE (IF Head(events).kind = "write" THEN Head(events).text ELSE <<>>)
         \o Literals(Tail(events))

RECURSIVE WithoutTokens(_, _)
\* the text from position i on with its recognized tokens removed
WithoutTokens(text, i) ==
    IF i > Len(text) THEN <<>>
    ELSE IF TokenAt(text, i).len > 0 THEN WithoutTokens(text, i + TokenAt(text, i).len)
    ELSE <<text[i]>> \o WithoutTokens(text, i + 1)

\* C31: the literal entries type_text sends, joined in order, are the input
\* with its recognized key tokens removed: no other character is dropped
C31_NoCharacterDropped ==
    typeOut.done => Literals(typeOut.events) = WithoutTokens(typeIn, 1)

----------------------------------------------------------------------------
(* extractText: fields and order *)

\* the position of the first colon of a text
FirstColon(text) ==
    CHOOSE p \in 1..Len(text) : text[p] = ":" /\ \A k \in 1..(p - 1) : text[k] # ":"
FieldLabel(text) == Strip(SubSeq(text, 1, FirstColon(text) - 1))
FieldValue(text) == Strip(SubSeq(text, FirstColon(text) + 1, Len(text)))

\* C32: a string taken as a field is cut at its first colon only, its trimmed
\* label maps to its trimmed value whatever value the label had before, and
\* an error or status message goes to the end of its list, after the earlier
\* ones
C32_FieldsAndOrder ==
    childCount > 0 =>
        /\ Outcome(childText) = "field" =>
              /\ FieldLabel(childText) \in DOMAIN window_text.field_values
              /\ window_text.field_values[FieldLabel(childText)] = FieldValue(childText)
        /\ Outcome(childText) = "error" =>
              /\ Len(window_text.error_messages) = Len(prevResult.error_messages) + 1
              /\ SubSeq(window_text.error_messages, 1, Len(prevResult.error_messages))
                     = prevResult.error_messages
              /\ window_text.error_messages[Len(window_text.error_messages)] = childText
        /\ Outcome(childText) = "status" =>
              /\ Len(window_text.status_messages) = Len(prevResult.status_messages) + 1
              /\ SubSeq(window_text.status_messages, 1, Len(prevResult.status_messages))
                     = prevResult.status_messages
              /\ window_text.status_messages[Len(window_text.status_messages)] = childText

\* a second string with the label Material, blanks around its label and its
\* value and a second colon in its value, has replaced the value of the first
C32_Witness ==
    /\ childCount > 1
    /\ childText = <<" ", "Material", " ", ":", " ", "200", ":", "x", " ">>
    /\ <<"Material">> \in DOMAIN prevResult.field_values
    /\ prevResult.field_values[<<"Material">>] = <<"100-100">>
    /\ window_text.field_values[<<"Material">>] = <<"200", ":", "x">>
    /\ DOMAIN window_text.field_values = {<<"Material">>}

----------------------------------------------------------------------------
(* The retained screenshot *)

\* the image a reply carries, "" when it carries none
ImageOf(entry) ==
    IF entry.type = "image" THEN entry.data
    ELSE IF entry.type = "resource" THEN entry.text[2]
    ELSE ""
Delivered(content) ==
    IF \E i \in 1..Len(content) : ImageOf(content[i]) # ""
    THEN ImageOf(content[CHOOSE i \in 1..Len(content) : ImageOf(content[i]) # ""])
    ELSE ""

----------------------------------------------------------------------------
(* findAnyVisibleWindow *)

\* the visible windows of the target process whose title has no launcher marker
Candidates ==
    {h \in Handles : /\ win[h] = "visible"
                     /\ WindowPid(h) = SapPid
                     /\ ~IsLauncher(h)}
\* where a handle stands in an enumeration
PlaceIn(order, h) == CHOOSE i \in 1..Len(order) : order[i] = h
FirstCandidate(order) ==
    CHOOSE h \in Candidates : \A g \in Candidates : PlaceIn(order, h) <= PlaceIn(order, g)

\* C34: when an operation had to search for a window, it got none iff there
\* is no candidate; otherwise the window that was in the foreground if that is
\* a candidate, else the first candidate of the enumeration; never an
\* invisible window, a window of another process or the launcher window
C34_FindAnyVisibleWindow ==
    opEnum.ran =>
        /\ opHwnd = None <=> Candidates = {}
        /\ Candidates # {} =>
              opHwnd = IF opEnum.fg \in Candidates THEN opEnum.fg
                       ELSE FirstCandidate(opEnum.order)
        /\ opHwnd # None =>
              /\ win[opHwnd] = "visible"
              /\ WindowPid(opHwnd) = SapPid
              /\ ~IsLauncher(opHwnd)

\* two candidates, the later one of the enumeration in the foreground: the
\* search returned it, with the launcher and another process's window open
C34_Witness ==
    /\ opEnum.ran
    /\ Candidates = {2, 5}
    /\ win[3] = "visible"
    /\ win[4] = "visible"
    /\ opEnum.fg = opHwnd
    /\ FirstCandidate(opEnum.order) # opHwnd

----------------------------------------------------------------------------
(* The loops of the controller, turn by turn.  A turn of a timed loop is     *)
(* one evaluation of its time test that passes; the test can fail after any *)
(* turn and fails at the latest after the turns the timeout leaves room     *)
(* for.  The server handles one call at a time.                             *)

\* no call is in progress
CallFree ==
    /\ lpc = "idle"
    /\ pc = "idle"
    /\ waitPc = "idle"
    /\ ~typeAt.run

\* how many turns of 0.1 s the model lets a wait make before its timeout
MaxWaitTurns == 2
WaitLoops == {"tier1", "tier2", "tier3", "popup"}
WaitFrame ==
    UNCHANGED <<actIn, actOut, mapVars, typeVars, integVars, textVars, toolVars, endVars, osVars,
                globVars, locVars, opVars, launchVars>>

\* _ensure_sap_window_active, lines 350-358: the first attempt and its wait
ActivateStart ==
    /\ CallFree
    /\ waitPc' = "tier1"
    /\ waitTurns' = 0
    /\ waitOut' = "none"
    /\ WaitFrame

\* _handle_multiple_logon_popup, lines 402-406: the retry loop is entered
PopupStart ==
    /\ CallFree
    /\ waitPc' = "popup"
    /\ waitTurns' = 0
    /\ waitOut' = "none"
    /\ WaitFrame

\* lines 314-317 and 409-416: a turn; active is what GetForegroundWindow shows
WaitTurn(active) ==
    /\ waitPc \in WaitLoops
    /\ waitTurns < MaxWaitTurns
    /\ IF active
       THEN /\ waitPc' = "done"
            /\ waitTurns' = 0
            /\ waitOut' = "active"
       ELSE /\ waitTurns' = waitTurns + 1
            /\ UNCHANGED <<waitPc, waitOut>>
    /\ WaitFrame

\* lines 314, 318 and 409, 418-419: the time test fails; lines 362-377: the
\* next tier, and the warning after the last
WaitTimeout ==
    /\ waitPc \in WaitLoops
    /\ waitTurns >= 1
    /\ waitTurns' = 0
    /\ waitPc' = CASE waitPc = "tier1" -> "tier2"
                   [] waitPc = "tier2" -> "tier3"
                   [] OTHER -> "done"
    /\ waitOut' = IF waitPc \in {"tier3", "popup"} THEN "warning" ELSE waitOut
    /\ WaitFrame

\* the call goes on to its input and returns
WaitReturn ==
    /\ waitPc = "done"
    /\ waitPc' = "idle"
    /\ UNCHANGED <<waitTurns, waitOut>>
    /\ WaitFrame

ParseTexts ==
    {<<"u", "{", "U", "P", "}", "~">>, <<"{", "u", "}", "{">>}
ParseFrame ==
    UNCHANGED <<mapVars, integVars, textVars, toolVars, endVars, actVars, osVars, globVars, locVars,
                opVars, launchVars>>

\* type_text(text) of the macOS controller is called: lines 77-78
ParseStart(text) ==
    /\ CallFree
    /\ typeIn' = text
    /\ typeOut' = NoTypeOut
    /\ typeAt' = [run |-> TRUE, i |-> 1, buffer |-> <<>>]
    /\ ParseFrame

\* lines 79-101: i < len(text)
ParseTurn ==
    /\ typeAt.run
    /\ typeAt.i <= Len(typeIn)
    /\ LET t == type_text_turn(typeIn, typeAt.i, typeAt.buffer, typeOut.events)
       IN /\ typeAt' = [run |-> TRUE, i |-> t.i, buffer |-> t.buffer]
          /\ typeOut' = [done |-> FALSE, events |-> t.events]
    /\ UNCHANGED typeIn
    /\ ParseFrame

\* lines 102-105: the loop is left
ParseEnd ==
    /\ typeAt.run
    /\ typeAt.i > Len(typeIn)
    /\ typeOut' = [done |-> TRUE, events |-> Flush(typeAt.buffer, typeOut.events)]
    /\ typeAt' = NoParse
    /\ UNCHANGED typeIn
    /\ ParseFrame

LiveWindows == {2}

NextLive ==
    \/ CallFree /\ LaunchStart(NoLaunchEnv)
    \/ ProcPoll
    \/ ProcPollTimeout
    \/ LaunchFind
    \/ \E order \in EnumOrders : EnumPass(order)
    \/ ReturnFound
    \/ ReturnTimeout
    \/ LaunchFinish
    \/ ProcessStarts
    \/ \E h \in LiveWindows, s \in WinStates : lpc = "find" /\ WindowChanges(h, s)
    \/ ActivateStart
    \/ PopupStart
    \/ \E active \in BOOLEAN : WaitTurn(active)
    \/ WaitTimeout
    \/ WaitReturn
    \/ \E text \in ParseTexts : ParseStart(text)
    \/ ParseTurn
    \/ ParseEnd

\* time advances and OS calls return: a call that can take its next step
\* takes it
FairSteps ==
    /\ WF_vars(ProcPoll)
    /\ WF_vars(ProcPollTimeout)
    /\ WF_vars(LaunchFind)
    /\ WF_vars(\E order \in EnumOrders : EnumPass(order))
    /\ WF_vars(ReturnFound)
    /\ WF_vars(ReturnTimeout)
    /\ WF_vars(LaunchFinish)
    /\ WF_vars(\E active \in BOOLEAN : WaitTurn(active))
    /\ WF_vars(WaitTimeout)
    /\ WF_vars(WaitReturn)
    /\ WF_vars(ParseTurn)
    /\ WF_vars(ParseEnd)

SpecLive == Init /\ [][NextLive]_vars /\ FairSteps

\* C35: every call of launch_transaction, of the window search, of the
\* activation and of the popup resolver returns, each loop ending on success
\* or on its timeout, and type_text returns on every text, its index rising
\* on every turn
C35_Terminates ==
    /\ (lpc # "idle") ~> (lpc = "idle")
    /\ (pc # "idle") ~> (pc = "idle")
    /\ (waitPc # "idle") ~> (waitPc = "idle")
    /\ typeAt.run ~> typeOut.done
    /\ [][(typeAt.run /\ typeAt'.run) => typeAt'.i > typeAt.i]_vars

\* a session in which the process poll and the window search have timed out,
\* the last activation ended with the warning, and type_text has returned
\* from a text with an unknown group and an unclosed bracket
C35_Witness ==
    /\ CallFree
    /\ {"process", "window"} \subseteq launchFailures
    /\ findResult = "timeout"
    /\ waitOut = "warning"
    /\ typeIn = <<"{", "u", "}", "{">>
    /\ typeOut.done

----------------------------------------------------------------------------
(* The two controllers on the same point; the check and the window *)

\* C36: the macOS controller's click and move put the pointer where the
\* Windows controller puts it for the same rectangle, scale and point: at
\* window origin + point * scale
C36_SamePosition ==
    mapOut.op \in {"click_macos", "move_macos"} =>
        /\ mapOut.screen[1] = DpiBase * mapIn.rect[1] + mapIn.x * mapIn.scale
        /\ mapOut.screen[2] = DpiBase * mapIn.rect[2] + mapIn.y * mapIn.scale

\* C37: a point that passed the bounds check of click or move is sent to a
\* screen point within the window's rectangle, whatever the scale
C37_CheckedPointInWindow ==
    (mapOut.op \in {"click", "move"} /\ mapIn.check /\ ~mapOut.raised) =>
        /\ DpiBase * mapIn.rect[1] <= mapOut.screen[1]
        /\ mapOut.screen[1] <= DpiBase * mapIn.rect[3]
        /\ DpiBase * mapIn.rect[2] <= mapOut.screen[2]
        /\ mapOut.screen[2] <= DpiBase * mapIn.rect[4]

----------------------------------------------------------------------------
(* What a screenshot shows *)

\* an operation returned a screenshot
Captured ==
    /\ opName \in {"click", "move", "type", "scroll"}
    /\ opResult = "ok"
    /\ opTrace # <<>>
    /\ opTrace[Len(opTrace)] = "screenshot"

\* C38: when click, move, type or scroll returns a screenshot, the window in
\* the foreground, whose rectangle was grabbed, is the cached main window the
\* operation activated
C38_ScreenshotOfMainWindow ==
    Captured =>
        /\ fg # None
        /\ fg = opHwnd
        /\ fg = main_window_hwnd

----------------------------------------------------------------------------
(* update_settings *)

SpecInteg == Init /\ [][NextInteg]_vars

\* C39: while update_settings runs, the settings file differs from what it
\* was only once the call is through; a call that got through validated the
\* content, made the backup, wrote the temporary file, validated it again and
\* replaced the file, in this order; a call that failed left the settings
\* file as it was
C39_ReplaceLast ==
    /\ (upc # "idle" /\ disk.settings # uOrig) => upc = "done"
    /\ upc = "done" =>
          /\ uLog = <<"validated", "backup", "written", "revalidated", "replaced">>
          /\ uOrig.json
          /\ uOrig.value.kind = "dict" /\ uOrig.value.mcp = "dict"
          /\ disk.backup = uOrig
          /\ disk.settings.json
          /\ <<ServerName, "new">> \in disk.settings.value.servers
    /\ upc = "failed" =>
          /\ disk.settings = uOrig
          /\ \A i \in 1..Len(uLog) : uLog[i] # "replaced"

\* a settings file with another server and an old entry has been replaced,
\* the other server kept and the backup holding the old content
C39_Witness ==
    /\ upc = "done"
    /\ uOrig.value.servers = {<<"other", "cfg">>, <<ServerName, "old">>}
    /\ disk.backup = uOrig
    /\ disk.settings.value.servers = {<<"other", "cfg">>, <<ServerName, "new">>}
    /\ disk.settings # uOrig
    /\ disk.temp = Missing

====
